---- MODULE Spec2Model ----
(***************************************************************************)
(* The enrichers of grimoire_elk_gitlink/enriched: the batch enrichment    *)
(* loop GitlinkEnrich2.enrich_items, the transform stage of GitlinkEnrich2  *)
(* and GitlinkEnrich, and the study GitlinkEnrich.enrich_onion.  The        *)
(* mapping functions are modelled at the level of which dictionary keys     *)
(* each one reads and writes (a subscript read of an absent key raises      *)
(* KeyError), with the values the computed fields carry.                    *)
(***************************************************************************)
EXTENDS Integers, Sequences, FiniteSets, TLC

\* ------------------------------------------------------------------ bounds
\* Well-formed repository records the source starts with.
MaxFill == 201
\* Records of any shape that follow them.
MaxTail == 2
\* Largest number of comments / review comments / reviews of one raw record
\* the source yields.
MaxComments == 1
\* Largest number of records of one batch the sink may fail to write.
MaxSinkLoss == 2
\* Largest number of comments / review comments / reviews of a raw record
\* handed to the transform stage on its own.
MaxSubRecords == 2
\* Times the transform stage is run on one raw record object.
MaxRuns == 2
\* The latest reading of the clock.
MaxClock == 705
\* Largest number of comments of a record whose actors are looked at.
MaxActorComments == 2
\* Calls made on one such record.
MaxCalls == 2

\* --------------------------------------------------------------- constants
MAX_SIZE_BULK_ENRICHED_ITEMS == 200
ISSUE_TYPE == "issue"
PULL_TYPE == "pull_request"
COMMENT_TYPE == "comment"
ISSUE_COMMENT_TYPE == "issue_comment"
REVIEW_COMMENT_TYPE == "review_comment"
REPOSITORY_TYPE == "repository"
DELETED_USER_LOGIN == "Deleted user login"
\* A category get_rich_item has no branch for.
OTHER_TYPE == "commit"

\* The value of a key that is not in a dictionary.
None == "None"
\* The 'id' of a record that has no 'id' key.
NoId == << >>
\* A timestamp that is None.
NoTime == -1
\* A number of days that is None.
NullDays == -1000000

\* Enrich.RAW_FIELDS_COPY, the envelope fields copy_raw_fields copies.
RAW_FIELDS_COPY ==
    {"metadata__updated_on", "metadata__timestamp", "offset", "origin", "tag", "uuid"}

\* The connector name get_connectors registers GitlinkEnrich2 under.
ConnectorName == "gitlink2"

\* The two enricher classes.
GitlinkEnrich2 == "GitlinkEnrich2"
GitlinkEnrich == "GitlinkEnrich"

\* ------------------------------------------- state the mapping functions read
VARIABLES
    sortinghat,       \* self.sortinghat: identities are resolved
    now               \* what datetime_utcnow() returns, in ticks of 1/300 day

\* ------------------------------------------------------------- raw records
\* A raw record: its category, the keys of the envelope, the keys of
\* item["data"], its id, the comments, review comments and reviews its data
\* carries, the keys of data["reactions"], and the values the computed fields
\* are derived from.  Timestamps are clock readings as written (utcoffset is
\* the UTC offset they are written with), in ticks of 1/300 day.
Envelope == RAW_FIELDS_COPY \cup {"category", "data", "updated_on"}

IssueData ==
    {"created_at", "finished_at", "status", "author", "id", "html_url", "title",
     "updated_at", "comments_data", "user", "labels"}

PullData ==
    {"id", "index", "issue", "status", "merged", "merged_at", "comments",
     "review_comments_data", "reviews_data"}

RepoData ==
    {"fetched_on", "forks_count", "subscribers_count", "stargazers_count", "origin"}

\* The payload of a category with every key present.
FullData(category) ==
    CASE category = ISSUE_TYPE -> IssueData
      [] category = PULL_TYPE -> PullData
      [] category = REPOSITORY_TYPE -> RepoData
      [] OTHER -> {}

\* A full payload, or one that lacks a key its mapping function subscripts.
Payloads(category) ==
    CASE category = ISSUE_TYPE -> {IssueData, IssueData \ {"finished_at"}}
      [] category = PULL_TYPE -> {PullData, PullData \ {"issue"}}
      [] category = REPOSITORY_TYPE -> {RepoData, RepoData \ {"origin"}}
      [] OTHER -> {{}}

\* The payloads GitlinkEnrich subscripts.
GitlinkEnrich_IssueData ==
    {"created_at", "updated_at", "status", "author", "id",
     "project_issues_index", "labels"}

GitlinkEnrich_PullData ==
    {"id", "index", "title", "status", "merged", "merged_at", "comments"}

GitlinkEnrich_RepoData ==
    {"forked_count", "watchers_count", "praises_count", "fetched_on", "releases"}

\* A user dictionary: its login and its keys.  NoUser is a value that is
\* falsy (None or {}); deleted_user_login is the placeholder
\* get_time_to_first_attention puts in its place.
NoUser == [login |-> None, keys |-> {}]

deleted_user_login == [login |-> DELETED_USER_LOGIN, keys |-> {"login"}]

User(login) == [login |-> login, keys |-> {"login", "name"}]

\* The j-th entry of comments_data, review_comments_data or reviews_data:
\* a comment as the API gives it ("plain"), one of a deleted user
\* ("deleted": no user, no user_data), one with reactions ("reacted"), or a
\* review action ("review": submitted_at in place of updated_at).
CommentKinds == {"plain", "deleted", "reacted", "review"}

Comment(id, kind, at) ==
    [id |-> id,
     keys |-> {"id", "body", "created_at", "html_url", "user"}
              \cup (IF kind = "review" THEN {"submitted_at", "state"}
                                       ELSE {"updated_at"})
              \cup (IF kind = "deleted" THEN {} ELSE {"user_data"})
              \cup (IF kind = "reacted" THEN {"reactions"} ELSE {}),
     user |-> IF kind = "deleted" THEN NoUser ELSE User("bob"),
     user_data |-> IF kind = "deleted" THEN None ELSE "bob",
     reactions |-> IF kind = "reacted" THEN {"url", "+1", "heart"} ELSE {},
     created_at |-> at,
     updated_at |-> IF kind = "review" THEN NoTime ELSE at,
     submitted_at |-> IF kind = "review" THEN at ELSE NoTime]

\* n entries of one kind, with the ids first + 1 .. first + n.
Comments(n, kind, first) == [j \in 1..n |-> Comment(first + j, kind, 200 + j)]

\* A raw record with nothing in it.
BlankItem ==
    [category |-> None, keys |-> {}, data |-> {}, id |-> 0,
     comments |-> << >>, review_comments |-> << >>, reviews |-> << >>,
     reactions |-> {}, status_id |-> 0,
     created_at |-> NoTime, finished_at |-> NoTime, updated_at |-> NoTime,
     utcoffset |-> 0,
     forks_count |-> 0, subscribers_count |-> 0, stargazers_count |-> 0,
     fetched_on |-> NoTime]

RawShapes ==
    {[category |-> ISSUE_TYPE, data |-> d, comments |-> n,
      review_comments |-> 0, reviews |-> 0] :
        d \in Payloads(ISSUE_TYPE), n \in 0..MaxComments}
    \cup
    {[category |-> PULL_TYPE, data |-> d, comments |-> 0,
      review_comments |-> r, reviews |-> r] :
        d \in Payloads(PULL_TYPE), r \in 0..MaxComments}
    \cup
    {[category |-> REPOSITORY_TYPE, data |-> d, comments |-> 0,
      review_comments |-> 0, reviews |-> 0] : d \in Payloads(REPOSITORY_TYPE)}
    \cup
    {[category |-> OTHER_TYPE, data |-> {}, comments |-> 0,
      review_comments |-> 0, reviews |-> 0]}

\* The raw record of shape s that is the n-th record of the source.
RawItem(s, n) ==
    [BlankItem EXCEPT
        !.category = s.category, !.keys = Envelope, !.data = s.data, !.id = n,
        !.comments = Comments(s.comments, "plain", 0),
        !.review_comments = Comments(s.review_comments, "plain", 0),
        !.reviews = Comments(s.reviews, "review", 0),
        !.status_id = 1, !.created_at = 100, !.updated_at = 100,
        !.fetched_on = 100]

FillShape ==
    [category |-> REPOSITORY_TYPE, data |-> RepoData, comments |-> 0,
     review_comments |-> 0, reviews |-> 0]

\* The loop variable before the first record is fetched.
NoItem == BlankItem

\* --------------------------------------------------------- transform stage
\* The values of the computed fields of an enriched record; NoValues has each
\* of them absent.
NoValues ==
    [time_to_close_days |-> NullDays, time_open_days |-> NullDays,
     time_to_first_attention |-> NullDays,
     num_of_comments_without_bot |-> NullDays,
     forks_count |-> NullDays, subscribers_count |-> NullDays,
     stargazers_count |-> NullDays, fetched_on |-> NoTime,
     user_login |-> None, comment_updated_at |-> NoTime,
     metadata__enriched_on |-> NoTime]

\* What a mapping function returns: raised is TRUE when a subscript read an
\* absent key (KeyError); otherwise keys are the keys of the dictionary, id
\* and item_type the values under "id" and "item_type" (NoId, None when the
\* key is absent) and values the values of the computed fields.
KeyError ==
    [raised |-> TRUE, keys |-> {}, id |-> NoId, item_type |-> None,
     values |-> NoValues]

Dict(keys, id, item_type, values) ==
    [raised |-> FALSE, keys |-> keys,
     id |-> IF "id" \in keys THEN id ELSE NoId,
     item_type |-> IF "item_type" \in keys THEN item_type ELSE None,
     values |-> values]

\* grimoire_elk.enriched.utils.get_time_diff_days: None when an end is None,
\* otherwise the difference of the two readings in days, rounded to two
\* decimals ('%.2f'); here in hundredths of a day, from ticks of 1/300 day.
get_time_diff_days(start, end) ==
    IF start = NoTime \/ end = NoTime
    THEN NullDays
    ELSE ((end - start) + 1) \div 3

\* Enrich.get_grimoire_fields: the creation date and the is_<connector>_<name> flag.
get_grimoire_fields(item_name) ==
    {"grimoire_creation_date", "is_" \o ConnectorName \o "_" \o item_name}

\* The @metadata decorator (the same three keys as add_gelk_metadata).
add_gelk_metadata ==
    {"metadata__gelk_version", "metadata__gelk_backend_name", "metadata__enriched_on"}

\* rich.pop("is_gitlink2_<name>") followed by rich["is_gitlink_<name>"] = 1:
\* pop without a default raises KeyError when the key is absent.
pop_connector_flag(keys, item_name) ==
    IF ("is_gitlink2_" \o item_name) \in keys
    THEN [raised |-> FALSE,
          keys |-> (keys \ {"is_gitlink2_" \o item_name})
                   \cup {"is_gitlink_" \o item_name}]
    ELSE [raised |-> TRUE, keys |-> {}]

\* The name __get_reactions gives a reaction.
reaction_name(reaction) ==
    CASE reaction = "-1" -> "thumb_down"
      [] reaction = "+1" -> "thumb_up"
      [] OTHER -> reaction

\* __get_reactions that builds its result before it removes the url.
get_reactions_late_pop(item_reactions) ==
    {"reaction_" \o reaction_name(reaction) : reaction \in item_reactions}

\* GitlinkEnrich2.__get_reactions: the keys of the dictionary it returns.
get_reactions(item_reactions) ==
    {"reaction_" \o reaction_name(reaction) : reaction \in item_reactions \ {"url"}}

\* __get_reactions that empties the reactions of the raw record.
pop_reactions_url_all(item_reactions) == {}

\* GitlinkEnrich2.__get_reactions: item_reactions.pop("url", None), the
\* reactions of the raw record as the call leaves them.
pop_reactions_url(item_reactions) == item_reactions \ {"url"}

\* The keys of entry["reactions"], {} when the entry has no such key
\* (item.get("reactions", {})).
reactions_of(keys, reactions) == IF "reactions" \in keys THEN reactions ELSE {}

\* Enrich.get_item_sh: the identity fields of the roles the data carries.
get_item_sh(data, roles) ==
    {rol \o suffix :
        rol \in roles \cap data,
        suffix \in {"_id", "_uuid", "_name", "_user_name", "_domain",
                    "_org_name", "_bot"}}

\* get_time_to_first_attention, lines 208-211: a comment whose user is falsy
\* gets the placeholder of a deleted user, in the raw record.
ghost_users(comments) ==
    [j \in 1..Len(comments) |->
        IF comments[j].user.keys = {}
        THEN [comments[j] EXCEPT !.user = deleted_user_login]
        ELSE comments[j]]

\* The earliest of a set of timestamps, None when there is none.
min_date(dates) ==
    IF dates = {} THEN NoTime
    ELSE CHOOSE d \in dates : \A e \in dates : d <= e

\* GitlinkEnrich2.get_time_to_first_attention: the date of the first comment
\* of someone other than the author of the issue.
get_time_to_first_attention(author_login, comments) ==
    min_date({comments[j].created_at :
                j \in {k \in 1..Len(comments) :
                         ghost_users(comments)[k].user.login # author_login}})

\* The user / author keys of a rich issue (the same in both branches).
IssueUserKeys ==
    {"user_name", "author_name", "user_domain", "user_org", "user_location",
     "user_geolocation"}

AssigneeKeys ==
    {"assignee_login", "assignee_name", "assignee_domain", "assignee_org",
     "assignee_location", "assignee_geolocation"}

\* time_open_days of an issue that is open whatever its status.
time_open_days_always_open(issue, to_close) ==
    get_time_diff_days(issue.created_at, now)

\* time_open_days measured to the last update of the issue.
time_open_days_to_update(issue, to_close) ==
    IF issue.status_id = 1 \/ issue.status_id = 2
    THEN get_time_diff_days(issue.created_at, issue.updated_at)
    ELSE to_close

\* __get_rich_issue, lines 690-695 (gitlink.py 372-377): status 1 and 2 are
\* open, and time_open_days runs to datetime_utcnow(); any other status takes
\* the value of time_to_close_days.
time_open_days(issue, to_close) ==
    IF issue.status_id = 1 \/ issue.status_id = 2
    THEN get_time_diff_days(issue.created_at, now)
    ELSE to_close

\* GitlinkEnrich2.__get_rich_issue, lines 684-686.
time_to_close_days(issue) == get_time_diff_days(issue.created_at, issue.finished_at)

\* The login of issue["author"] and of issue["user"].
IssueAuthor == "ann"

\* GitlinkEnrich2.__get_rich_issue
get_rich_issue(item) ==
    LET issue == item.data
        reads == {"created_at", "finished_at", "status", "author", "id",
                  "html_url", "title", "updated_at", "comments_data"}
                 \cup (IF item.comments # << >> THEN {"user"} ELSE {})
        comments == ghost_users(item.comments)
        mapped == RAW_FIELDS_COPY
                  \cup {"time_to_close_days", "time_open_days", "user_login"}
                  \cup IssueUserKeys \cup AssigneeKeys
                  \cup {"id", "issue_id", "issue_id_in_repo", "repository",
                        "issue_title", "issue_title_analyzed", "issue_state",
                        "issue_created_at", "issue_updated_at"}
                  \cup get_reactions(reactions_of(issue, item.reactions))
                  \cup (IF "labels" \in issue THEN {"issue_labels"} ELSE {})
                  \cup {"item_type", "issue_pull_request"}
        \* if "issue" in rich_issue.keys(): reads rich_issue["issue"] and
        \* rich_issue["id_in_repo"]
        url_id == IF "issue" \in mapped THEN {"gitlink_repo", "url_id"} ELSE {}
        \* comment["user"]["name"] of a comment by someone other than
        \* issue["user"]: the placeholder of a deleted user has no name
        nameless == \E j \in 1..Len(comments) :
                        /\ comments[j].user.login # IssueAuthor
                        /\ "name" \notin comments[j].user.keys
        rich == mapped \cup url_id
                \cup (IF "project" \in item.keys THEN {"project"} ELSE {})
                \cup {"time_to_first_attention"}
                \cup (IF item.comments # << >>
                      THEN {"num_of_comments_without_bot",
                            "time_to_first_attention_without_bot"}
                      ELSE {})
                \cup get_grimoire_fields(ISSUE_TYPE)
        popped == pop_connector_flag(rich, ISSUE_TYPE)
        sh == IF sortinghat
              THEN get_item_sh(issue, {"assignee_data", "author_data"})
              ELSE {}
        values ==
            [NoValues EXCEPT
                !.time_to_close_days = time_to_close_days(item),
                !.time_open_days = time_open_days(item, time_to_close_days(item)),
                !.user_login = IssueAuthor,
                !.time_to_first_attention =
                    get_time_diff_days(
                        item.created_at,
                        get_time_to_first_attention(IssueAuthor, item.comments)),
                !.num_of_comments_without_bot =
                    IF item.comments # << >> THEN Len(comments) ELSE NullDays]
    IN  IF ~(reads \subseteq issue)
           \/ ("issue" \in mapped /\ "id_in_repo" \notin mapped)
           \/ nameless
           \/ popped.raised
        THEN KeyError
        ELSE Dict(popped.keys \cup sh, <<item.id>>, ISSUE_TYPE, values)

\* GitlinkEnrich2.__get_rich_issue: the raw record as the call leaves it,
\* also when it raises on the way.
get_rich_issue_raw(item) ==
    LET issue == item.data
        \* the subscripts before __get_reactions(issue)
        first == {"created_at", "finished_at", "status", "author", "id",
                  "html_url", "title", "updated_at"}
        reacted == IF first \subseteq issue /\ "reactions" \in issue
                   THEN [item EXCEPT !.reactions = pop_reactions_url(@)]
                   ELSE item
        attended == IF first \subseteq issue /\ "comments_data" \in issue
                    THEN [reacted EXCEPT !.comments = ghost_users(@)]
                    ELSE reacted
    IN  IF sortinghat /\ ~get_rich_issue(item).raised
        THEN [attended EXCEPT !.keys = @ \cup {"grimoire_creation_date"}]
        ELSE attended

\* GitlinkEnrich2.__get_rich_pull
get_rich_pull(item) ==
    LET pull_request == item.data
        reads == {"id", "index", "issue", "status", "merged", "merged_at", "comments"}
        rich == RAW_FIELDS_COPY
                \cup {"user_name", "author_name", "user_domain", "user_org",
                      "user_geolocation"}
                \cup (IF "user_data" \in pull_request THEN {} ELSE {"user_location"})
                \cup {"merge_author_login", "merge_author_name",
                      "merge_author_domain", "merge_author_org",
                      "merge_author_geolocation"}
                \cup (IF "merge_by" \in pull_request
                      THEN {} ELSE {"merge_author_location"})
                \cup {"id", "pull_id", "pull_id_in_repo", "issue_id_in_repo",
                      "repository", "pull_state", "pull_updated_at", "pull_merged",
                      "pull_merged_at", "url", "pull_url", "issue_url"}
                \cup get_reactions(reactions_of(pull_request, item.reactions))
                \cup {"item_type", "num_review_comments",
                      "time_to_merge_request_response"}
                \cup (IF "project" \in item.keys THEN {"project"} ELSE {})
        popped == pop_connector_flag(rich, PULL_TYPE)
    IN  IF ~(reads \subseteq pull_request)
           \/ ~({"updated_on", "origin"} \subseteq item.keys)
           \/ popped.raised
        THEN KeyError
        ELSE Dict(popped.keys, <<item.id>>, PULL_TYPE, NoValues)

\* GitlinkEnrich2.__get_rich_pull: the raw record as the call leaves it.
get_rich_pull_raw(item) ==
    LET pull_request == item.data
        \* the subscripts before __get_reactions(pull_request)
        first == {"id", "index", "issue", "status", "merged", "merged_at"}
    IN  IF /\ first \subseteq pull_request
           /\ {"updated_on", "origin"} \subseteq item.keys
           /\ "reactions" \in pull_request
        THEN [item EXCEPT !.reactions = pop_reactions_url(@)]
        ELSE item

\* GitlinkEnrich2.__get_rich_repo
get_rich_repo(item) ==
    LET repo == item.data
        reads == {"fetched_on", "forks_count", "subscribers_count",
                  "stargazers_count", "origin"}
        rich == RAW_FIELDS_COPY
                \cup {"id", "forks_count", "subscribers_count", "stargazers_count",
                      "fetched_on", "url", "item_type"}
                \cup get_grimoire_fields(REPOSITORY_TYPE)
        popped == pop_connector_flag(rich, REPOSITORY_TYPE)
        values == [NoValues EXCEPT
                      !.forks_count = item.forks_count,
                      !.subscribers_count = item.subscribers_count,
                      !.stargazers_count = item.stargazers_count,
                      !.fetched_on = item.fetched_on]
    IN  IF ~(reads \subseteq repo)
           \/ "metadata__updated_on" \notin item.keys
           \/ popped.raised
        THEN KeyError
        ELSE Dict(popped.keys, <<item.id>>, REPOSITORY_TYPE, values)

\* GitlinkEnrich2.get_rich_item: dispatch on the category; an unknown
\* category leaves rich_item = {} and the function still returns it, with the
\* repository labels, the raw filter and the metadata added.
get_rich_item(item) ==
    LET rich_item ==
            CASE item.category = ISSUE_TYPE -> get_rich_issue(item)
              [] item.category = PULL_TYPE -> get_rich_pull(item)
              [] item.category = REPOSITORY_TYPE -> get_rich_repo(item)
              [] OTHER -> Dict({}, NoId, None, NoValues)
    IN  IF rich_item.raised
        THEN KeyError
        ELSE Dict(rich_item.keys
                    \cup {"repository_labels", "metadata__filter_raw"}
                    \cup add_gelk_metadata,
                  rich_item.id, rich_item.item_type,
                  [rich_item.values EXCEPT !.metadata__enriched_on = now])

\* GitlinkEnrich2.get_rich_item: the raw record as the call leaves it.
get_rich_item_raw(item) ==
    CASE item.category = ISSUE_TYPE -> get_rich_issue_raw(item)
      [] item.category = PULL_TYPE -> get_rich_pull_raw(item)
      [] OTHER -> item

\* The logger.error call of get_rich_item's else branch.
get_rich_item_log(item) ==
    IF item.category \in {ISSUE_TYPE, PULL_TYPE, REPOSITORY_TYPE}
    THEN << >>
    ELSE <<[level |-> "error", msg |-> "rich item not defined",
            args |-> <<item.category>>]>>

\* What a fan-out function returns: raised, or the list of enriched records.
FanOutError == [raised |-> TRUE, eitems |-> << >>]

FanOut(eitems) == [raised |-> FALSE, eitems |-> eitems]

\* Lines 369-373 (468-472): the login of comment["user_data"], the
\* placeholder's when the comment has none.
user_login(comment) ==
    IF "user_data" \in comment.keys THEN comment.user_data ELSE DELETED_USER_LOGIN

\* Lines 354 and 369-372 (450 and 468-471): the comment of the raw record
\* as the loop body leaves it.
comment_raw(comment) ==
    [comment EXCEPT
        !.reactions = IF "reactions" \in comment.keys
                      THEN pop_reactions_url(@) ELSE @,
        !.user_data = user_login(comment),
        !.keys = @ \cup {"user_data"}]

\* Lines 359 and 458: "{}_<sub_type>_{}".format(eitem["id"], comment["id"]).
comment_id(parent, sub_type, id) == <<parent, sub_type, id>>

\* GitlinkEnrich2.get_rich_issue_comments: one record per comment, each
\* copying keys of the enriched issue by subscript.
get_rich_issue_comments(comments, eitem) ==
    LET reads == {"issue_labels", "issue_id", "issue_id_in_repo", "issue_url",
                  "issue_title", "issue_state", "issue_created_at",
                  "issue_updated_at", "closed_at", "issue_pull_request",
                  "gitlink_repo", "repository", "id"}
        ecomment(comment) ==
            LET copied == RAW_FIELDS_COPY
                          \cup {"issue_labels", "issue_id", "issue_id_in_repo",
                                "issue_url", "issue_title", "issue_state",
                                "issue_created_at", "issue_updated_at",
                                "issue_closed_at", "issue_pull_request",
                                "gitlink_repo", "repository", "item_type",
                                "sub_type", "body", "body_analyzed"}
                          \cup get_reactions(
                                  reactions_of(comment.keys, comment.reactions))
                          \cup {"comment_updated_at", "id"}
                          \cup get_grimoire_fields(ISSUE_COMMENT_TYPE)
                popped == pop_connector_flag(copied, ISSUE_COMMENT_TYPE)
            IN  Dict(popped.keys
                       \cup {"is_gitlink_comment", "user_login"}
                       \cup (IF "project" \in eitem.keys THEN {"project"} ELSE {})
                       \cup {"repository_labels", "metadata__filter_raw"}
                       \cup add_gelk_metadata,
                     comment_id(eitem.id[1], ISSUE_COMMENT_TYPE, comment.id),
                     COMMENT_TYPE,
                     [NoValues EXCEPT
                         !.user_login = user_login(comment),
                         !.comment_updated_at = comment.updated_at,
                         !.metadata__enriched_on = now])
    IN  IF comments # << >> /\ ~(reads \subseteq eitem.keys)
        THEN FanOutError
        ELSE FanOut([j \in 1..Len(comments) |-> ecomment(comments[j])])

\* GitlinkEnrich2.get_rich_issue_comments: the comments of the raw record as
\* the call leaves them.
get_rich_issue_comments_raw(comments, eitem) ==
    IF get_rich_issue_comments(comments, eitem).raised
    THEN comments
    ELSE [j \in 1..Len(comments) |-> comment_raw(comments[j])]

\* GitlinkEnrich2.enrich_issue
enrich_issue(item, eitem) ==
    LET comments == IF "comments_data" \in item.data THEN item.comments ELSE << >>
    IN  IF comments # << >>
        THEN get_rich_issue_comments(comments, eitem)
        ELSE FanOut(<< >>)

\* GitlinkEnrich2.enrich_issue: the raw record as the call leaves it.
enrich_issue_raw(item, eitem) ==
    IF "comments_data" \in item.data
    THEN [item EXCEPT !.comments = get_rich_issue_comments_raw(@, eitem)]
    ELSE item

\* Lines 414-415: a review has submitted_at in place of updated_at.
with_updated_at(comment) ==
    IF "updated_at" \in comment.keys
    THEN comment
    ELSE [comment EXCEPT !.updated_at = comment.submitted_at,
                         !.keys = @ \cup {"updated_at"}]

\* GitlinkEnrich2.get_rich_pull_reviews: one record per review comment or
\* review, each copying keys of the enriched pull request by subscript.
get_rich_pull_reviews(comments, eitem) ==
    LET reads == {"pull_labels", "pull_id", "pull_id_in_repo", "issue_id_in_repo",
                  "issue_title", "issue_url", "pull_url", "pull_state",
                  "pull_created_at", "pull_updated_at", "pull_merged_at",
                  "pull_closed_at", "pull_merged", "gitlink_repo", "repository",
                  "id"}
        ecomment(comment) ==
            LET copied == RAW_FIELDS_COPY
                          \cup {"review_state", "pull_labels", "pull_id",
                                "pull_id_in_repo", "issue_id_in_repo",
                                "issue_title", "issue_url", "pull_url",
                                "pull_state", "pull_created_at",
                                "pull_updated_at", "pull_merged_at",
                                "pull_closed_at", "pull_merged", "gitlink_repo",
                                "repository", "item_type", "sub_type", "body",
                                "body_analyzed", "url"}
                          \cup get_reactions(
                                  reactions_of(comment.keys, comment.reactions))
                          \cup {"comment_updated_at", "comment_created_at", "id"}
                          \cup get_grimoire_fields(REVIEW_COMMENT_TYPE)
                popped == pop_connector_flag(copied, REVIEW_COMMENT_TYPE)
            IN  Dict(popped.keys
                       \cup {"is_gitlink_comment", "user_login"}
                       \cup (IF "project" \in eitem.keys THEN {"project"} ELSE {})
                       \cup {"repository_labels", "metadata__filter_raw"}
                       \cup add_gelk_metadata,
                     comment_id(eitem.id[1], REVIEW_COMMENT_TYPE, comment.id),
                     COMMENT_TYPE,
                     [NoValues EXCEPT
                         !.user_login = user_login(comment),
                         !.comment_updated_at = with_updated_at(comment).updated_at,
                         !.metadata__enriched_on = now])
    IN  IF comments # << >> /\ ~(reads \subseteq eitem.keys)
        THEN FanOutError
        ELSE FanOut([j \in 1..Len(comments) |-> ecomment(comments[j])])

\* GitlinkEnrich2.get_rich_pull_reviews: the entries of the raw record as the
\* call leaves them; when eitem lacks a key, the first entry has its
\* updated_at set before the subscript raises.
get_rich_pull_reviews_raw(comments, eitem) ==
    IF get_rich_pull_reviews(comments, eitem).raised
    THEN [j \in 1..Len(comments) |->
            IF j = 1 THEN with_updated_at(comments[j]) ELSE comments[j]]
    ELSE [j \in 1..Len(comments) |-> comment_raw(with_updated_at(comments[j]))]

\* GitlinkEnrich2.enrich_pulls
enrich_pulls(item, eitem) ==
    LET comments == IF "review_comments_data" \in item.data
                    THEN item.review_comments ELSE << >>
        reviews == IF "reviews_data" \in item.data THEN item.reviews ELSE << >>
        rich_item_comments == IF comments # << >>
                              THEN get_rich_pull_reviews(comments, eitem)
                              ELSE FanOut(<< >>)
        rich_item_reviews == IF reviews # << >>
                             THEN get_rich_pull_reviews(reviews, eitem)
                             ELSE FanOut(<< >>)
    IN  IF rich_item_comments.raised \/ rich_item_reviews.raised
        THEN FanOutError
        ELSE FanOut(rich_item_comments.eitems \o rich_item_reviews.eitems)

\* GitlinkEnrich2.enrich_pulls: the raw record as the call leaves it; the
\* reviews are not reached when the review comments raise.
enrich_pulls_raw(item, eitem) ==
    LET comments == IF "review_comments_data" \in item.data
                    THEN item.review_comments ELSE << >>
        commented == IF comments # << >>
                     THEN [item EXCEPT !.review_comments =
                                           get_rich_pull_reviews_raw(@, eitem)]
                     ELSE item
    IN  IF (comments # << >> /\ get_rich_pull_reviews(comments, eitem).raised)
           \/ "reviews_data" \notin item.data
        THEN commented
        ELSE [commented EXCEPT !.reviews = get_rich_pull_reviews_raw(@, eitem)]

\* ------------------------------------------- GitlinkEnrich (gitlink.py)
\* The connector name get_connectors registers GitlinkEnrich under.
GitlinkEnrich_ConnectorName == "gitlink"

\* Enrich.get_grimoire_fields for GitlinkEnrich (no flag is popped there).
GitlinkEnrich_get_grimoire_fields(item_name) ==
    {"grimoire_creation_date", "is_" \o GitlinkEnrich_ConnectorName \o "_" \o item_name}

\* GitlinkEnrich.__get_rich_issue, lines 366-368.
GitlinkEnrich_time_to_close_days(issue) ==
    get_time_diff_days(issue.created_at, issue.updated_at)

\* GitlinkEnrich.__get_rich_issue
GitlinkEnrich_get_rich_issue(item) ==
    LET issue == item.data
        reads == {"created_at", "updated_at", "status", "author", "id",
                  "project_issues_index"}
        rich == RAW_FIELDS_COPY
                \cup {"time_to_close_days", "time_open_days", "user_login",
                      "user_name", "author_name", "assignee", "id", "id_in_repo",
                      "repository", "state", "created_at", "updated_at"}
                \cup (IF "labels" \in issue THEN {"labels"} ELSE {})
                \cup {"pull_request", "item_type"}
                \cup (IF "project" \in item.keys THEN {"project"} ELSE {})
                \cup GitlinkEnrich_get_grimoire_fields(ISSUE_TYPE)
        item_type == IF "head" \notin issue /\ "pull_request" \notin issue
                     THEN "issue" ELSE "pull_request"
        values ==
            [NoValues EXCEPT
                !.time_to_close_days = GitlinkEnrich_time_to_close_days(item),
                !.time_open_days =
                    time_open_days(item, GitlinkEnrich_time_to_close_days(item)),
                !.user_login = IssueAuthor]
    IN  IF ~(reads \subseteq issue)
        THEN KeyError
        ELSE Dict(rich, <<item.id>>, item_type, values)

\* GitlinkEnrich.__get_rich_pull
GitlinkEnrich_get_rich_pull(item) ==
    LET pull_request == item.data
        reads == {"id", "index", "title", "status", "merged", "merged_at",
                  "comments"}
        rich == RAW_FIELDS_COPY
                \cup {"merge_author_login", "merge_author_name", "id",
                      "id_in_repo", "repository", "title", "title_analyzed",
                      "state", "updated_at", "merged", "merged_at", "url",
                      "pull_request", "item_type", "forks", "num_review_comments"}
    IN  IF ~(reads \subseteq pull_request)
           \/ ~({"updated_on", "origin"} \subseteq item.keys)
        THEN KeyError
        ELSE Dict(rich, <<item.id>>, "pull_request", NoValues)

\* GitlinkEnrich.__get_rich_repo: it sets no 'id'.
GitlinkEnrich_get_rich_repo(item) ==
    LET repo == item.data
        reads == {"forked_count", "watchers_count", "praises_count",
                  "fetched_on", "releases"}
        rich == RAW_FIELDS_COPY
                \cup {"forks_count", "subscribers_count", "praises_count",
                      "fetched_on", "url", "item_type", "releases",
                      "releases_count"}
                \cup GitlinkEnrich_get_grimoire_fields(REPOSITORY_TYPE)
        values == [NoValues EXCEPT
                      !.forks_count = item.forks_count,
                      !.subscribers_count = item.subscribers_count,
                      !.fetched_on = item.fetched_on]
    IN  IF ~(reads \subseteq repo)
           \/ ~({"origin", "metadata__updated_on"} \subseteq item.keys)
        THEN KeyError
        ELSE Dict(rich, <<item.id>>, "repository", values)

\* GitlinkEnrich.get_rich_item
GitlinkEnrich_get_rich_item(item) ==
    LET rich_item ==
            CASE item.category = "issue" -> GitlinkEnrich_get_rich_issue(item)
              [] item.category = "pull_request" -> GitlinkEnrich_get_rich_pull(item)
              [] item.category = "repository" -> GitlinkEnrich_get_rich_repo(item)
              [] OTHER -> Dict({}, NoId, None, NoValues)
    IN  IF rich_item.raised
        THEN KeyError
        ELSE Dict(rich_item.keys
                    \cup {"repository_labels", "metadata__filter_raw"}
                    \cup add_gelk_metadata,
                  rich_item.id, rich_item.item_type,
                  [rich_item.values EXCEPT !.metadata__enriched_on = now])

\* ---------------------------------------------------------------- the loop
VARIABLES
    pc,               \* where enrich_items is: DRAINING, FLUSHING, FINAL, REPORT, DONE, RAISED
    item,             \* the loop variable: the raw record fetched last
    items_to_enrich,  \* the batch buffer
    num_items,        \* records submitted to the sink so far
    ins_items,        \* records the sink reported as written so far
    log,              \* what was logged, in order
    source,           \* ocean_backend.fetch(): how many records it has yielded
    sunk,             \* the calls elastic.bulk_upload has received, in order
    produced,         \* every record appended to the buffer, in order
    enricher,         \* the class of self: GitlinkEnrich2 or GitlinkEnrich
    raw,              \* the raw record object handed to the transform stage
    original,         \* a deep copy of raw taken before the first call
    tpc,              \* transform stage: IDLE, or ENRICH after get_rich_item returned
    returned,         \* what get_rich_item returned last
    runs,             \* the completed calls of the transform stage, in order
    study,            \* GitlinkEnrich.enrich_onion: its arguments and what it did
    heap,             \* the list objects enrich_items made, and who holds which
    actors            \* a record with actors, and what was done to it last

loop_vars == <<pc, item, items_to_enrich, num_items, ins_items, log, source, sunk, produced>>

stage_vars == <<enricher, sortinghat, now, raw, original, tpc, returned, runs>>

vars == <<loop_vars, stage_vars, study, heap, actors>>

\* The reading of the clock when the model starts.
NowStart == 550

\* get_rich_item has not returned yet.
NoReturn == Dict({}, NoId, None, NoValues)

\* enrich_onion has not been called.
NoStudy ==
    [pc |-> "IDLE", data_source |-> None, no_incremental |-> FALSE,
     in_index |-> None, out_index |-> None, seconds |-> 0,
     raised |-> None, log |-> << >>, base |-> << >>, io |-> << >>]


\* The list objects of enrich_items when it starts: the empty list of line
\* 494, which the name items_to_enrich is bound to; no call of bulk_upload is
\* in progress and none was made.
NoHeap ==
    [lists |-> << << >> >>, items_to_enrich |-> 1, in_call |-> 0, calls |-> << >>]

\* No record with actors is being looked at.
NoActors == [pc |-> "IDLE"]
\* What the buffer keeps of an enriched record: the two values the sink and
\* the index read, the source record it comes from (src) and its place among
\* the records of that source record (sub: 0 for the parent).
Stored(eitem, src, sub) ==
    [id |-> eitem.id, item_type |-> eitem.item_type, src |-> src, sub |-> sub]

StoredAll(eitems, src) == [j \in 1..Len(eitems) |-> Stored(eitems[j], src, j)]

\* GitlinkEnrich2.get_field_unique_id
get_field_unique_id == "id"

\* Records the source has yielded.
Fetched(src) == src.fill + src.tail

\* The shapes the next record of the source may have, each with the source
\* after it: up to MaxFill repository records, then up to MaxTail records of
\* any shape.
SourceNext(src) ==
    {<<s, [src EXCEPT !.fill = @ + 1]>> :
        s \in IF src.tail = 0 /\ src.fill < MaxFill THEN {FillShape} ELSE {}}
    \cup
    {<<s, [src EXCEPT !.tail = @ + 1]>> :
        s \in IF src.tail < MaxTail THEN RawShapes ELSE {}}

\* The counts elastic.bulk_upload may return for a batch of n records.
SinkResults(n) == {r \in 0..n : r = 0 \/ n - r <= MaxSinkLoss}

Init ==
    /\ pc = "DRAINING"
    /\ item = NoItem
    /\ items_to_enrich = << >>
    /\ num_items = 0
    /\ ins_items = 0
    /\ log = << >>
    /\ source = [fill |-> 0, tail |-> 0, exhausted |-> FALSE]
    /\ sunk = << >>
    /\ produced = << >>
    /\ enricher = GitlinkEnrich2
    /\ sortinghat = FALSE
    /\ now = NowStart
    /\ raw = NoItem
    /\ original = NoItem
    /\ tpc = "IDLE"
    /\ returned = NoReturn
    /\ runs = << >>
    /\ study = NoStudy
    /\ heap = NoHeap
    /\ actors = NoActors

\* A loop that flushes one record early.
BelowThreshold_early(n) == n < MAX_SIZE_BULK_ENRICHED_ITEMS - 1

\* A loop that flushes one record late.
BelowThreshold_late(n) == n < MAX_SIZE_BULK_ENRICHED_ITEMS + 1

\* The test that ends an iteration of the loop: continue, or go on to flush.
BelowThreshold(n) == n < MAX_SIZE_BULK_ENRICHED_ITEMS

\* The fan-out step of an iteration.
enrich_fan_out(it, eitem) ==
    IF it.category = ISSUE_TYPE THEN enrich_issue(it, eitem)
    ELSE IF it.category = PULL_TYPE THEN enrich_pulls(it, eitem)
    ELSE FanOut(<< >>)

\* The fan-out step of an iteration: the raw record as it leaves it.
enrich_fan_out_raw(it, eitem) ==
    IF it.category = ISSUE_TYPE THEN enrich_issue_raw(it, eitem)
    ELSE IF it.category = PULL_TYPE THEN enrich_pulls_raw(it, eitem)
    ELSE it

\* One iteration of the for loop up to the threshold test: the source yields
\* a record, it is transformed and appended, its fan-out records are
\* appended; a KeyError leaves the function.
enrich_items_iteration ==
    /\ pc = "DRAINING"
    /\ \E next \in SourceNext(source) :
         LET it == RawItem(next[1], Fetched(source) + 1)
             eitem == get_rich_item(it)
             parent == <<Stored(eitem, it.id, 0)>>
             \* the record as get_rich_item leaves it
             mapped == get_rich_item_raw(it)
             fan == enrich_fan_out(mapped, eitem)
             eitems == StoredAll(fan.eitems, it.id)
         IN  /\ source' = next[2]
             /\ item' = IF eitem.raised THEN mapped
                        ELSE enrich_fan_out_raw(mapped, eitem)
             /\ log' = log \o get_rich_item_log(it)
             /\ IF eitem.raised
                THEN /\ pc' = "RAISED"
                     /\ UNCHANGED <<items_to_enrich, produced>>
                ELSE IF fan.raised
                THEN /\ pc' = "RAISED"
                     /\ items_to_enrich' = items_to_enrich \o parent
                     /\ produced' = produced \o parent
                ELSE /\ items_to_enrich' = items_to_enrich \o parent \o eitems
                     /\ produced' = produced \o parent \o eitems
                     /\ pc' = IF BelowThreshold(Len(items_to_enrich'))
                              THEN "DRAINING" ELSE "FLUSHING"
    /\ UNCHANGED <<num_items, ins_items, sunk>>
    /\ UNCHANGED <<stage_vars, study, heap, actors>>

\* A flush that keeps the batch for another attempt when the sink wrote
\* fewer records than it was given.
enrich_items_flush_retry ==
    /\ pc = "FLUSHING"
    /\ \E ret \in SinkResults(Len(items_to_enrich)) :
         /\ num_items' = num_items + Len(items_to_enrich)
         /\ ins_items' = ins_items + ret
         /\ sunk' = Append(sunk, [items |-> items_to_enrich,
                                  field_id |-> get_field_unique_id,
                                  ret |-> ret, final |-> FALSE])
         /\ items_to_enrich' = IF ret < Len(items_to_enrich)
                               THEN items_to_enrich ELSE << >>
         /\ pc' = IF ret < Len(items_to_enrich) THEN "FLUSHING" ELSE "DRAINING"
    /\ UNCHANGED <<item, log, source, produced>>
    /\ UNCHANGED <<stage_vars, study, heap, actors>>

\* The flush inside the loop: the batch goes to the sink, the counters are
\* updated and the buffer is replaced by a new empty list.
enrich_items_flush ==
    /\ pc = "FLUSHING"
    /\ \E ret \in SinkResults(Len(items_to_enrich)) :
         /\ num_items' = num_items + Len(items_to_enrich)
         /\ ins_items' = ins_items + ret
         /\ sunk' = Append(sunk, [items |-> items_to_enrich,
                                  field_id |-> get_field_unique_id,
                                  ret |-> ret, final |-> FALSE])
    /\ items_to_enrich' = << >>
    /\ pc' = "DRAINING"
    /\ UNCHANGED <<item, log, source, produced>>
    /\ UNCHANGED <<stage_vars, study, heap, actors>>

\* The source is exhausted: the for loop ends.
enrich_items_exhausted ==
    /\ pc = "DRAINING"
    /\ source' = [source EXCEPT !.exhausted = TRUE]
    /\ pc' = "FINAL"
    /\ UNCHANGED <<item, items_to_enrich, num_items, ins_items, log, sunk, produced>>
    /\ UNCHANGED <<stage_vars, study, heap, actors>>

\* A final flush that is made for an empty buffer too.
HasRemainder_always(n) == n >= 0

\* Whether the code after the loop hands the buffer to the sink.
HasRemainder(n) == n > 0

\* Code after the loop that forgets the remainder.
enrich_items_final_dropped ==
    /\ pc = "FINAL"
    /\ pc' = "REPORT"
    /\ UNCHANGED <<item, items_to_enrich, num_items, ins_items, log, source, sunk,
                   produced>>
    /\ UNCHANGED <<stage_vars, study, heap, actors>>

\* A flush after the loop that counts the records the sink reports as
\* written.
enrich_items_final_written ==
    /\ pc = "FINAL"
    /\ IF HasRemainder(Len(items_to_enrich))
       THEN \E ret \in SinkResults(Len(items_to_enrich)) :
              /\ num_items' = num_items + ret
              /\ ins_items' = ins_items + ret
              /\ sunk' = Append(sunk, [items |-> items_to_enrich,
                                       field_id |-> get_field_unique_id,
                                       ret |-> ret, final |-> TRUE])
       ELSE UNCHANGED <<num_items, ins_items, sunk>>
    /\ pc' = "REPORT"
    /\ UNCHANGED <<item, items_to_enrich, log, source, produced>>
    /\ UNCHANGED <<stage_vars, study, heap, actors>>

\* The flush after the loop, of a non-empty remainder.
enrich_items_final ==
    /\ pc = "FINAL"
    /\ IF HasRemainder(Len(items_to_enrich))
       THEN \E ret \in SinkResults(Len(items_to_enrich)) :
              /\ num_items' = num_items + Len(items_to_enrich)
              /\ ins_items' = ins_items + ret
              /\ sunk' = Append(sunk, [items |-> items_to_enrich,
                                       field_id |-> get_field_unique_id,
                                       ret |-> ret, final |-> TRUE])
       ELSE UNCHANGED <<num_items, ins_items, sunk>>
    /\ pc' = "REPORT"
    /\ UNCHANGED <<item, items_to_enrich, log, source, produced>>
    /\ UNCHANGED <<stage_vars, study, heap, actors>>

\* A report whose missing count is subtracted the wrong way round.
ReportEntry_swapped(num, ins) ==
    IF num # ins
    THEN [level |-> "error", msg |-> "missing items", args |-> <<ins - num, num>>]
    ELSE [level |-> "info", msg |-> "items inserted", args |-> <<num>>]

\* A report that states the written total in place of the submitted total.
ReportEntry_written(num, ins) ==
    IF num # ins
    THEN [level |-> "error", msg |-> "missing items", args |-> <<num - ins, ins>>]
    ELSE [level |-> "info", msg |-> "items inserted", args |-> <<ins>>]

\* The log call that ends enrich_items.
ReportEntry(num, ins) ==
    IF num # ins
    THEN [level |-> "error", msg |-> "missing items", args |-> <<num - ins, num>>]
    ELSE [level |-> "info", msg |-> "items inserted", args |-> <<num>>]

\* The report and the return: num_items is the return value; the frame, and
\* with it the local list, is gone.
enrich_items_report ==
    /\ pc = "REPORT"
    /\ log' = Append(log, ReportEntry(num_items, ins_items))
    /\ items_to_enrich' = << >>
    /\ pc' = "DONE"
    /\ UNCHANGED <<item, num_items, ins_items, source, sunk, produced>>
    /\ UNCHANGED <<stage_vars, study, heap, actors>>

Next ==
    \/ enrich_items_iteration
    \/ enrich_items_flush
    \/ enrich_items_exhausted
    \/ enrich_items_final
    \/ enrich_items_report

Spec == Init /\ [][Next]_vars

\* The loop is sequential code: every step that can be taken is taken.
LiveSpec == Spec /\ WF_vars(Next)

\* ------------------------------------------- the transform stage on its own
\* The raw records handed to GitlinkEnrich2: each category, with a full
\* payload or one that lacks a key, with and without reactions, with up to
\* MaxSubRecords comments, review comments and reviews of each kind.
ReactionsOf == {<<{}, {}>>, <<{"reactions"}, {"url", "+1"}>>}

IssueInputs ==
    {[BlankItem EXCEPT
        !.category = ISSUE_TYPE, !.keys = Envelope, !.data = d \cup r[1],
        !.id = 7, !.reactions = r[2], !.comments = Comments(n, kind, 0),
        !.status_id = s, !.created_at = 100, !.finished_at = f,
        !.updated_at = 400, !.utcoffset = o] :
        d \in Payloads(ISSUE_TYPE), r \in ReactionsOf, n \in 0..MaxSubRecords,
        kind \in {"plain", "deleted", "reacted"}, s \in {1, 2, 3},
        f \in {NoTime, 550}, o \in {0, 100}}

\* The reviews are numbered from 1, as the review comments are, or after them.
PullInputs ==
    {[BlankItem EXCEPT
        !.category = PULL_TYPE, !.keys = Envelope, !.data = d \cup r[1],
        !.id = 7, !.reactions = r[2],
        !.review_comments = Comments(n, kind, 0),
        !.reviews = Comments(v, "review", first)] :
        d \in Payloads(PULL_TYPE), r \in ReactionsOf, n \in 0..MaxSubRecords,
        kind \in {"plain", "reacted"}, v \in 0..MaxSubRecords,
        first \in {0, MaxSubRecords}}

\* The repository record of the scenario: category and data, with or without
\* the fetch metadata of the envelope and the origin in the data.
RepoInputs ==
    {[BlankItem EXCEPT
        !.category = REPOSITORY_TYPE, !.keys = k, !.data = d, !.id = 7,
        !.forks_count = 3, !.subscribers_count = 10, !.stargazers_count = 7,
        !.fetched_on = 100] :
        d \in Payloads(REPOSITORY_TYPE), k \in {Envelope, {"category", "data"}}}

OtherInputs ==
    {[BlankItem EXCEPT !.category = OTHER_TYPE, !.keys = Envelope, !.id = 7]}

\* The raw records handed to GitlinkEnrich.
GitlinkEnrich_Inputs ==
    {[BlankItem EXCEPT
        !.category = ISSUE_TYPE, !.keys = Envelope, !.data = d, !.id = 7,
        !.status_id = s, !.created_at = 100, !.updated_at = u,
        !.utcoffset = o] :
        d \in {GitlinkEnrich_IssueData,
               GitlinkEnrich_IssueData \ {"project_issues_index"},
               GitlinkEnrich_IssueData \cup {"pull_request"}},
        s \in {1, 2, 3}, u \in {NoTime, 400}, o \in {0, 100}}
    \cup
    {[BlankItem EXCEPT
        !.category = PULL_TYPE, !.keys = Envelope, !.data = d, !.id = 7] :
        d \in {GitlinkEnrich_PullData, GitlinkEnrich_PullData \ {"title"}}}
    \cup
    {[BlankItem EXCEPT
        !.category = REPOSITORY_TYPE, !.keys = Envelope, !.data = d, !.id = 7,
        !.forks_count = 3, !.subscribers_count = 10, !.fetched_on = 100] :
        d \in {GitlinkEnrich_RepoData, GitlinkEnrich_RepoData \ {"releases"}}}
    \cup OtherInputs

TransformInputs(class) ==
    IF class = GitlinkEnrich2
    THEN IssueInputs \cup PullInputs \cup RepoInputs \cup OtherInputs
    ELSE GitlinkEnrich_Inputs

\* self.get_rich_item of the class of self.
self_get_rich_item(rawitem) ==
    IF enricher = GitlinkEnrich2
    THEN get_rich_item(rawitem)
    ELSE GitlinkEnrich_get_rich_item(rawitem)

\* The raw record as self.get_rich_item leaves it: GitlinkEnrich assigns to
\* nothing of the raw record.
self_get_rich_item_raw(rawitem) ==
    IF enricher = GitlinkEnrich2 THEN get_rich_item_raw(rawitem) ELSE rawitem

\* Whether enrich_items goes on to enrich_issue or enrich_pulls: only
\* GitlinkEnrich2 has them.
HasFanOut(rawitem) ==
    enricher = GitlinkEnrich2 /\ rawitem.category \in {ISSUE_TYPE, PULL_TYPE}

\* A completed call of the transform stage: what get_rich_item returned (or
\* the enriched record the caller passed, when enrich_issue / enrich_pulls
\* was called on its own), what the fan-out returned, and the reading of the
\* clock when the call began.
Run(direct, rich_item, fan, at) ==
    [direct |-> direct, eitem |-> rich_item, fan |-> fan, at |-> at]

\* An enriched parent record that has every key the fan-out subscripts, as a
\* caller of enrich_issue / enrich_pulls may pass it.
ParentEitem(rawitem) ==
    Dict(RAW_FIELDS_COPY
           \cup {"id", "item_type", "repository", "gitlink_repo",
                 "issue_labels", "issue_id", "issue_id_in_repo", "issue_url",
                 "issue_title", "issue_state", "issue_created_at",
                 "issue_updated_at", "closed_at", "issue_pull_request",
                 "pull_labels", "pull_id", "pull_id_in_repo", "pull_url",
                 "pull_state", "pull_created_at", "pull_updated_at",
                 "pull_merged_at", "pull_closed_at", "pull_merged"},
         <<rawitem.id>>, rawitem.category, NoValues)

TransformInit ==
    /\ pc = "DRAINING"
    /\ item = NoItem
    /\ items_to_enrich = << >>
    /\ num_items = 0
    /\ ins_items = 0
    /\ log = << >>
    /\ source = [fill |-> 0, tail |-> 0, exhausted |-> FALSE]
    /\ sunk = << >>
    /\ produced = << >>
    /\ enricher \in {GitlinkEnrich2, GitlinkEnrich}
    /\ sortinghat \in IF enricher = GitlinkEnrich2 THEN BOOLEAN ELSE {FALSE}
    /\ now = NowStart
    /\ raw \in TransformInputs(enricher)
    /\ original = raw
    /\ tpc = "IDLE"
    /\ returned = NoReturn
    /\ runs = << >>
    /\ study = NoStudy
    /\ heap = NoHeap
    /\ actors = NoActors

\* self.get_rich_item(item), the first step of an iteration of enrich_items:
\* it returns or raises, and leaves the raw record as the mapping function
\* left it.
transform_get_rich_item ==
    /\ tpc = "IDLE"
    /\ Len(runs) < MaxRuns
    /\ LET rich_item == self_get_rich_item(raw)
       IN  /\ returned' = rich_item
           /\ raw' = self_get_rich_item_raw(raw)
           /\ IF rich_item.raised \/ ~HasFanOut(raw)
              THEN /\ runs' = Append(runs, Run(FALSE, rich_item, FanOut(<< >>), now))
                   /\ tpc' = "IDLE"
              ELSE /\ runs' = runs
                   /\ tpc' = "ENRICH"
    /\ UNCHANGED <<enricher, sortinghat, now, original>>
    /\ UNCHANGED <<loop_vars, study, heap, actors>>

\* self.enrich_issue(item, eitem) / self.enrich_pulls(item, eitem), the
\* second step of the iteration.
transform_enrich ==
    /\ tpc = "ENRICH"
    /\ runs' = Append(runs, Run(FALSE, returned, enrich_fan_out(raw, returned),
                            returned.values.metadata__enriched_on))
    /\ raw' = enrich_fan_out_raw(raw, returned)
    /\ tpc' = "IDLE"
    /\ UNCHANGED <<enricher, sortinghat, now, original, returned>>
    /\ UNCHANGED <<loop_vars, study, heap, actors>>

\* enrich_issue / enrich_pulls called on their own (they are public
\* methods), with an enriched parent record of the caller's.
call_enrich ==
    /\ tpc = "IDLE"
    /\ Len(runs) < MaxRuns
    /\ HasFanOut(raw)
    /\ LET parent == ParentEitem(raw)
       IN  /\ runs' = Append(runs, Run(TRUE, parent, enrich_fan_out(raw, parent), now))
           /\ raw' = enrich_fan_out_raw(raw, parent)
    /\ UNCHANGED <<enricher, sortinghat, now, original, tpc, returned>>
    /\ UNCHANGED <<loop_vars, study, heap, actors>>

\* The steps the clock is seen to make between two readings.
ClockSteps == {50, 151}

\* Time passes: datetime_utcnow() returns a later reading.
utcnow_tick ==
    /\ \E step \in ClockSteps :
         /\ now + step <= MaxClock
         /\ now' = now + step
    /\ UNCHANGED <<enricher, sortinghat, raw, original, tpc, returned, runs>>
    /\ UNCHANGED <<loop_vars, study, heap, actors>>

TransformNext ==
    \/ transform_get_rich_item
    \/ transform_enrich
    \/ call_enrich
    \/ utcnow_tick

TransformSpec == TransformInit /\ [][TransformNext]_vars

\* ------------------------------------------------------------------ claims
RECURSIVE Flatten(_)
\* The records of the sink calls, in the order the sink received them.
Flatten(calls) ==
    IF calls = << >> THEN << >>
    ELSE Flatten(SubSeq(calls, 1, Len(calls) - 1)) \o calls[Len(calls)].items

RECURSIVE SumLen(_)
\* The number of records the sink calls submitted.
SumLen(calls) ==
    IF calls = << >> THEN 0
    ELSE SumLen(SubSeq(calls, 1, Len(calls) - 1)) + Len(calls[Len(calls)].items)

RECURSIVE SumRet(_)
\* The number of records the sink calls reported as written.
SumRet(calls) ==
    IF calls = << >> THEN 0
    ELSE SumRet(SubSeq(calls, 1, Len(calls) - 1)) + calls[Len(calls)].ret

\* Each record comes after the records of earlier source records, and after
\* the earlier records of its own source record: none occurs twice.
InSourceOrder(f) ==
    \A k \in 1..(Len(f) - 1) :
        \/ f[k].src < f[k + 1].src
        \/ f[k].src = f[k + 1].src /\ f[k].sub < f[k + 1].sub

KnownCategories == {ISSUE_TYPE, PULL_TYPE, REPOSITORY_TYPE}

\* The record has every key of its category's payload.
WellFormed(it) == it.category \in KnownCategories /\ it.data = FullData(it.category)

\* The fan-out records a raw record carries.
FanOutSize(it) ==
    IF it.category = ISSUE_TYPE THEN Len(it.comments)
    ELSE IF it.category = PULL_TYPE THEN Len(it.review_comments) + Len(it.reviews)
    ELSE 0

IsReport(e) == e.msg \in {"missing items", "items inserted"}

Reports == {k \in 1..Len(log) : IsReport(log[k])}

FinalCalls == {k \in 1..Len(sunk) : sunk[k].final}

\* C1: a flush before the source is exhausted is made exactly when the
\* buffer has reached 200 records: no such sink call has fewer than 200
\* records, the loop goes to the flush when the count is 200 or more, and
\* it never goes on draining with 200 or more buffered.
C1_FlushAtThreshold ==
    /\ \A k \in 1..Len(sunk) :
         ~sunk[k].final => Len(sunk[k].items) >= MAX_SIZE_BULK_ENRICHED_ITEMS
    /\ pc = "FLUSHING" => Len(items_to_enrich) >= MAX_SIZE_BULK_ENRICHED_ITEMS
    /\ pc = "DRAINING" => Len(items_to_enrich) < MAX_SIZE_BULK_ENRICHED_ITEMS

\* C1 witness: a mid-run flush of 200 records was made and the loop drains again.
C1_Witness ==
    /\ pc = "DRAINING"
    /\ Len(sunk) = 1
    /\ ~sunk[1].final
    /\ Len(sunk[1].items) = MAX_SIZE_BULK_ENRICHED_ITEMS
    /\ Len(items_to_enrich) = 1

\* C2: the sink never receives an empty batch; the flush after the loop is
\* made at most once, as the last call, with 1 to 199 records, and it is made
\* exactly when the source ended with a non-empty buffer; after it everything
\* appended has been submitted.
C2_FinalFlush ==
    /\ \A k \in 1..Len(sunk) : Len(sunk[k].items) > 0
    /\ \A k \in FinalCalls :
         /\ k = Len(sunk)
         /\ Len(sunk[k].items) < MAX_SIZE_BULK_ENRICHED_ITEMS
    /\ pc \in {"DRAINING", "FLUSHING", "FINAL", "RAISED"} => FinalCalls = {}
    /\ pc = "REPORT" =>
         /\ (FinalCalls # {}) <=> (Len(items_to_enrich) > 0)
         /\ FinalCalls # {} => sunk[Len(sunk)].items = items_to_enrich
    /\ pc \in {"REPORT", "DONE"} => SumLen(sunk) = Len(produced)

\* C2 witness: after a mid-run flush the source ended with a remainder, which
\* was flushed.
C2_Witness ==
    /\ pc = "DONE"
    /\ Len(sunk) = 2
    /\ sunk[2].final
    /\ Len(sunk[2].items) = 2

\* C3 (as claimed): when the records fetched so far are fewer than 200 and
\* the last one is a well-formed record whose fan-out brings the output of
\* the run to 200 or more, the loop goes to a flush.
C3_FanOutCounts ==
    ( /\ WellFormed(item)
      /\ FanOutSize(item) > 0
      /\ source.tail = 1
      /\ Fetched(source) < MAX_SIZE_BULK_ENRICHED_ITEMS
      /\ Fetched(source) + FanOutSize(item) >= MAX_SIZE_BULK_ENRICHED_ITEMS )
    => pc = "FLUSHING"

C5_LogPerFlush ==
    pc \in {"DRAINING", "DONE"} =>
        \A k \in 1..Len(sunk) :
            sunk[k].ret # Len(sunk[k].items) =>
                \E j \in Reports :
                    /\ log[j].level = "error"
                    /\ log[j].args[1] = Len(sunk[k].items) - sunk[k].ret

\* C5 (amended): no flush logs anything; the counts are compared once, at
\* the end of the run, on the totals: an error is logged exactly when the
\* total submitted differs from the total written, and it carries the
\* difference of the totals.
C5_LogTotalsAtEnd ==
    /\ pc # "DONE" => \A j \in Reports : log[j].level # "error"
    /\ pc = "DONE" =>
         LET errors == {j \in Reports : log[j].level = "error"}
         IN  /\ Cardinality(errors) = IF SumLen(sunk) # SumRet(sunk) THEN 1 ELSE 0
             /\ \A j \in errors : log[j].args[1] = SumLen(sunk) - SumRet(sunk)

\* C5 witness: the sink wrote 198 of the 200 records of the mid-run batch and
\* all of the final batch; the run is over with a missing count of 2.
C5_Witness ==
    /\ pc = "DONE"
    /\ Len(sunk) = 2
    /\ Len(sunk[1].items) = 200 /\ sunk[1].ret = 198
    /\ sunk[2].ret = Len(sunk[2].items)
    /\ log[Len(log)].level = "error"
    /\ log[Len(log)].args[1] = 2

\* C6 (as claimed): at DONE the log holds one report, and the report states
\* the total submitted and the total written.
C6_ReportStatesBoth ==
    pc = "DONE" =>
        /\ Cardinality(Reports) = 1
        /\ \A j \in Reports :
             /\ \E a \in 1..Len(log[j].args) : log[j].args[a] = num_items
             /\ \E a \in 1..Len(log[j].args) : log[j].args[a] = ins_items

\* C6 (amended): the report is logged once, as the last step of a run that
\* reaches DONE, and never before; it states the total submitted; when
\* everything was written it is an info entry with that one number, otherwise
\* an error entry with the number missing and the total submitted.
C6_ReportOnceAtDone ==
    /\ pc # "DONE" => Reports = {}
    /\ pc = "DONE" =>
         /\ Reports = {Len(log)}
         /\ LET report == log[Len(log)]
            IN  /\ report.args[Len(report.args)] = SumLen(sunk)
                /\ SumLen(sunk) = SumRet(sunk) =>
                     /\ report.level = "info"
                     /\ report.args = <<SumLen(sunk)>>
                /\ SumLen(sunk) # SumRet(sunk) =>
                     /\ report.level = "error"
                     /\ report.args = <<SumLen(sunk) - SumRet(sunk), SumLen(sunk)>>

\* C6 witness: a run with two flushes ended with a report that does not
\* state the written total.
C6_Witness ==
    /\ pc = "DONE"
    /\ Len(sunk) = 2
    /\ num_items = 201 /\ ins_items = 198
    /\ log[Len(log)].args = <<3, 201>>

\* C7: whatever the sink returns, the flush clears the buffer, adds the
\* batch size to the submitted count and goes back to draining; the calls
\* the sink has received are never taken back; no record is handed to the
\* sink twice, and at DONE every record produced has been handed over.
C7_NoRetryNoRollback ==
    /\ [](InSourceOrder(Flatten(sunk)))
    /\ [](pc = "DONE" => Flatten(sunk) = produced)
    /\ [][ /\ Len(sunk') >= Len(sunk)
           /\ SubSeq(sunk', 1, Len(sunk)) = sunk
           /\ pc = "FLUSHING" =>
                /\ pc' = "DRAINING"
                /\ items_to_enrich' = << >>
                /\ num_items' = num_items + Len(items_to_enrich)
                /\ Len(sunk') = Len(sunk) + 1
                /\ source' = source ]_vars

\* C7 witness: the sink wrote nothing of the mid-run batch, and the run went
\* on to flush the remainder and reach DONE.
C7_Witness ==
    /\ pc = "DONE"
    /\ Len(sunk) = 2
    /\ sunk[1].ret = 0
    /\ sunk[2].final
    /\ Fetched(source) = SumLen(sunk)

\* C8 (as claimed): a record of an unknown category leaves nothing in the
\* buffer and nothing is handed to the sink on its behalf.
C8_UnknownSkipped ==
    item.category = OTHER_TYPE =>
        /\ \A k \in 1..Len(items_to_enrich) : items_to_enrich[k].src # item.id
        /\ \A c \in 1..Len(sunk) :
             \A k \in 1..Len(sunk[c].items) : sunk[c].items[k].src # item.id

\* C9 (as claimed): every record in the buffer, and every record of a sink
\* call, has the key the sink is told to read the identifier from.
C9_IdPopulated ==
    /\ \A k \in 1..Len(items_to_enrich) : items_to_enrich[k].id # NoId
    /\ \A c \in 1..Len(sunk) :
         \A k \in 1..Len(sunk[c].items) : sunk[c].items[k].id # NoId

\* C10 (as claimed): a record of a known category that lacks a key of its
\* payload does not end the run.
C10_FailureScopedToRecord ==
    (item.category \in KnownCategories /\ item.data # FullData(item.category))
        => pc # "RAISED"

\* ------------------------------------------ claims on the transform stage
\* The calls of get_rich_item followed by the fan-out, as enrich_items makes them.
PipelineRuns == {k \in 1..Len(runs) : ~runs[k].direct}

RunRaised(run) == run.eitem.raised \/ run.fan.raised

\* The records of a call: the parent, then the fan-out records.
RunRecords(run) == <<run.eitem>> \o run.fan.eitems

\* The raw record has the envelope and every key of its category's payload,
\* and each of its comments has a user.
WellFormedRaw(it) ==
    /\ it.category \in KnownCategories
    /\ it.keys = Envelope
    /\ FullData(it.category) \subseteq it.data
    /\ \A j \in 1..Len(it.comments) : it.comments[j].user.keys # {}

\* C11 (as claimed): GitlinkEnrich2 turns a well-formed issue with N comments
\* into 1 + N records: the issue, then one 'comment' record per comment,
\* whose id is made of the id of the issue, the tag issue_comment and the id
\* of the comment, no two of them the same.
C11_IssueFanOut ==
    \A k \in PipelineRuns :
        (enricher = GitlinkEnrich2 /\ original.category = ISSUE_TYPE
         /\ WellFormedRaw(original)) =>
            /\ ~RunRaised(runs[k])
            /\ Len(RunRecords(runs[k])) = 1 + Len(original.comments)
            /\ \A j \in 1..Len(original.comments) :
                 /\ runs[k].fan.eitems[j].item_type = COMMENT_TYPE
                 /\ runs[k].fan.eitems[j].id =
                        <<original.id, "issue_comment", original.comments[j].id>>
            /\ \A i, j \in 1..Len(runs[k].fan.eitems) :
                 i # j => runs[k].fan.eitems[i].id # runs[k].fan.eitems[j].id

\* C12 (as claimed): GitlinkEnrich2 turns a well-formed pull request with R
\* review comments and V reviews into 1 + R + V records: the pull request,
\* the R records of the review comments, the V records of the reviews.
C12_PullFanOut ==
    \A k \in PipelineRuns :
        (enricher = GitlinkEnrich2 /\ original.category = PULL_TYPE
         /\ WellFormedRaw(original)) =>
            LET R == Len(original.review_comments)
                V == Len(original.reviews)
            IN  /\ ~RunRaised(runs[k])
                /\ Len(RunRecords(runs[k])) = 1 + R + V
                /\ runs[k].eitem.item_type = PULL_TYPE
                /\ \A j \in 1..R :
                     runs[k].fan.eitems[j].id[3] = original.review_comments[j].id
                /\ \A j \in 1..V :
                     runs[k].fan.eitems[R + j].id[3] = original.reviews[j].id

\* C13 (as claimed): the records GitlinkEnrich2 returns for one parent, the
\* parent and its fan-out records, have pairwise different ids.
C13_IdsUnique ==
    \A k \in 1..Len(runs) :
        ~RunRaised(runs[k]) =>
            \A i, j \in 1..Len(RunRecords(runs[k])) :
                i # j => RunRecords(runs[k])[i].id # RunRecords(runs[k])[j].id

\* C14 (as claimed): whatever was called, the raw record is what it was
\* before the first call.
C14_RawUnchanged == raw = original

\* An entry of comments_data, review_comments_data or reviews_data differs
\* from what it was only by the normalisations of the fan-out and of
\* get_time_to_first_attention.
CommentNormalised(before, after) ==
    /\ after.id = before.id
    /\ after.created_at = before.created_at
    /\ after.submitted_at = before.submitted_at
    /\ \/ after.user = before.user
       \/ before.user.keys = {} /\ after.user = deleted_user_login
    /\ after.reactions \in {before.reactions, before.reactions \ {"url"}}
    /\ before.keys \subseteq after.keys
    /\ after.keys \subseteq before.keys \cup {"user_data", "updated_at"}
    /\ \/ after.user_data = before.user_data
       \/ "user_data" \notin before.keys /\ after.user_data = DELETED_USER_LOGIN
    /\ \/ after.updated_at = before.updated_at
       \/ "updated_at" \notin before.keys /\ after.updated_at = before.submitted_at

CommentsNormalised(before, after) ==
    /\ Len(after) = Len(before)
    /\ \A j \in 1..Len(before) : CommentNormalised(before[j], after[j])

\* C14 (amended): the transform stage leaves the raw record as it was but
\* for its in-place normalisations: 'url' is removed from the reactions of
\* the payload and of a comment, a comment without a user gets the
\* placeholder of a deleted user, a comment without user_data gets the
\* placeholder user_data, a review without updated_at gets its submitted_at
\* there and, with identities resolved, the record of an issue gets
\* grimoire_creation_date; GitlinkEnrich and the repository mapping change
\* nothing.
C14_OnlyNormalised ==
    /\ raw.category = original.category
    /\ raw.data = original.data
    /\ raw.id = original.id
    /\ <<raw.status_id, raw.created_at, raw.finished_at, raw.updated_at,
         raw.utcoffset>>
       = <<original.status_id, original.created_at, original.finished_at,
           original.updated_at, original.utcoffset>>
    /\ <<raw.forks_count, raw.subscribers_count, raw.stargazers_count,
         raw.fetched_on>>
       = <<original.forks_count, original.subscribers_count,
           original.stargazers_count, original.fetched_on>>
    /\ original.keys \subseteq raw.keys
    /\ raw.keys \subseteq original.keys \cup {"grimoire_creation_date"}
    /\ raw.keys # original.keys => sortinghat /\ raw.category = ISSUE_TYPE
    /\ raw.reactions \in {original.reactions, original.reactions \ {"url"}}
    /\ CommentsNormalised(original.comments, raw.comments)
    /\ CommentsNormalised(original.review_comments, raw.review_comments)
    /\ CommentsNormalised(original.reviews, raw.reviews)
    /\ (enricher = GitlinkEnrich \/ raw.category \notin {ISSUE_TYPE, PULL_TYPE})
         => raw = original

\* C14 witness: get_rich_item and enrich_issue have run on an issue with
\* reactions and a comment of a deleted user, and the raw record has lost
\* the url of its reactions and has the placeholder user in the comment.
C14_Witness ==
    /\ PipelineRuns # {}
    /\ raw.category = ISSUE_TYPE
    /\ "url" \in original.reactions /\ "url" \notin raw.reactions
    /\ Len(raw.comments) > 0
    /\ original.comments[1].user = NoUser
    /\ raw.comments[1].user = deleted_user_login

\* Two records are the same but for the field that holds the time of the
\* enrichment and, when open is TRUE, time_open_days.
SameRecord(a, b, open) ==
    /\ a.raised = b.raised
    /\ a.keys = b.keys
    /\ a.id = b.id
    /\ a.item_type = b.item_type
    /\ [a.values EXCEPT !.metadata__enriched_on = NoTime,
                        !.time_open_days = IF open THEN NullDays ELSE @]
       = [b.values EXCEPT !.metadata__enriched_on = NoTime,
                          !.time_open_days = IF open THEN NullDays ELSE @]

\* C15: two calls of the transform stage on the same raw record object,
\* whatever happened to the object and to the clock in between, both raise or
\* both return, and return the same records but for metadata__enriched_on
\* and, for an issue of status 1 or 2, time_open_days.
C15_Idempotent ==
    \A i, j \in 1..Len(runs) :
        (i < j /\ runs[i].direct = runs[j].direct) =>
            LET open == original.category = ISSUE_TYPE
                        /\ original.status_id \in {1, 2}
            IN  /\ SameRecord(runs[i].eitem, runs[j].eitem, open)
                /\ runs[i].fan.raised = runs[j].fan.raised
                /\ Len(runs[i].fan.eitems) = Len(runs[j].fan.eitems)
                /\ \A c \in 1..Len(runs[i].fan.eitems) :
                     SameRecord(runs[i].fan.eitems[c], runs[j].fan.eitems[c], FALSE)

\* C15 witness: get_rich_item returned twice for an issue whose reactions it
\* changed in the raw record the first time, at two readings of the clock.
C15_Witness ==
    /\ Len(runs) = 2
    /\ PipelineRuns = {1, 2}
    /\ ~runs[1].eitem.raised
    /\ "reaction_thumb_up" \in runs[2].eitem.keys
    /\ raw # original
    /\ runs[1].at < runs[2].at

\* Issues of an open status that get_rich_item returned a record for.
OpenIssueRuns ==
    {k \in PipelineRuns :
        /\ original.category = ISSUE_TYPE
        /\ original.status_id \in {1, 2}
        /\ ~runs[k].eitem.raised}

\* A day, in ticks, and in the hundredths the values are kept in.
Day == 3 * 100

ClosedIssueRuns ==
    {k \in PipelineRuns :
        /\ original.category = ISSUE_TYPE
        /\ original.status_id \notin {1, 2}
        /\ ~runs[k].eitem.raised}

\* C17: for an issue of a status other than 1 and 2, time_open_days is
\* time_to_close_days, and that is the time from the creation to the closing
\* (finished_at) for GitlinkEnrich2 and to the update (updated_at) for
\* GitlinkEnrich, None when there is no such time.
C17_ClosedOpenIsToClose ==
    \A k \in ClosedIssueRuns :
        LET closed == IF enricher = GitlinkEnrich2
                      THEN original.finished_at ELSE original.updated_at
        IN  /\ runs[k].eitem.values.time_open_days
                 = runs[k].eitem.values.time_to_close_days
            /\ runs[k].eitem.values.time_to_close_days
                 = IF closed = NoTime THEN NullDays
                   ELSE ((closed - original.created_at) + 1) \div 3

\* C17 witness: a closed issue was transformed after the clock had moved on,
\* and its time_open_days is the 1.5 days it took to close.
C17_Witness ==
    /\ ClosedIssueRuns = {1}
    /\ enricher = GitlinkEnrich2
    /\ runs[1].at > original.finished_at
    /\ runs[1].eitem.values.time_open_days = 150

\* C18 (as claimed): a record get_rich_item returns for an issue, a pull
\* request or a repository has the keys 'id' and 'item_type', and item_type
\* is the category of the raw record.
C18_IdAndItemType ==
    \A k \in PipelineRuns :
        (original.category \in KnownCategories /\ ~runs[k].eitem.raised) =>
            /\ "id" \in runs[k].eitem.keys
            /\ "item_type" \in runs[k].eitem.keys
            /\ runs[k].eitem.item_type = original.category

\* C19 (as claimed): GitlinkEnrich2 turns the repository record of the
\* scenario, whose data has forks_count 3, subscribers_count 10,
\* stargazers_count 7 and fetched_on, into one record with these counts and
\* item_type repository, and nothing else.
C19_RepositoryScenario ==
    \A k \in PipelineRuns :
        ( /\ enricher = GitlinkEnrich2
          /\ original.category = REPOSITORY_TYPE
          /\ original.data = {"forks_count", "subscribers_count",
                              "stargazers_count", "fetched_on"} ) =>
            /\ ~RunRaised(runs[k])
            /\ Len(RunRecords(runs[k])) = 1
            /\ runs[k].eitem.values.forks_count = 3
            /\ runs[k].eitem.values.subscribers_count = 10
            /\ runs[k].eitem.values.stargazers_count = 7
            /\ runs[k].eitem.item_type = "repository"


\* ------------------------------------------- GitlinkEnrich.enrich_onion
\* The data sources the onion study knows.
GITLINK_ISSUES == "gitlink_issues"
GITLNK_MERGES == "gitlink_pulls"

\* What callers pass as data_source: nothing (the default, None), the empty
\* string, the two known names and a name of another backend.
DataSources == {None, "", GITLINK_ISSUES, GITLNK_MERGES, "github_issues"}

\* The index pairs and the intervals the study is called with.
StudyIndexes == {<<"gitlink_enriched", "gitlink_onion">>,
                 <<"gitlink_enriched", "gitlink_enriched">>}
StudySeconds == {0, 604800}

\* A guard that lets the empty string through.
MissingDataSource_none_only(data_source) == data_source = None

\* `not data_source`: None and the empty string are falsy.
MissingDataSource(data_source) == data_source = None \/ data_source = ""

\* `data_source not in [GITLINK_ISSUES, GITLNK_MERGES]`
UnknownDataSource(data_source) ==
    data_source \notin {GITLINK_ISSUES, GITLNK_MERGES}

\* The arguments super().enrich_onion is called with.
BaseCall(s) ==
    [in_index |-> s.in_index, out_index |-> s.out_index,
     data_source |-> s.data_source, no_incremental |-> s.no_incremental,
     seconds |-> s.seconds]

StudyInit ==
    /\ pc = "DRAINING"
    /\ item = NoItem
    /\ items_to_enrich = << >>
    /\ num_items = 0
    /\ ins_items = 0
    /\ log = << >>
    /\ source = [fill |-> 0, tail |-> 0, exhausted |-> FALSE]
    /\ sunk = << >>
    /\ produced = << >>
    /\ enricher = GitlinkEnrich
    /\ sortinghat = FALSE
    /\ now = NowStart
    /\ raw = NoItem
    /\ original = NoItem
    /\ tpc = "IDLE"
    /\ returned = NoReturn
    /\ runs = << >>
    /\ study = NoStudy
    /\ heap = NoHeap
    /\ actors = NoActors

\* enrich_onion is called: its arguments are bound.
enrich_onion_called ==
    /\ study.pc = "IDLE"
    /\ \E data_source \in DataSources, idx \in StudyIndexes,
          no_incremental \in BOOLEAN, seconds \in StudySeconds :
         study' = [study EXCEPT !.pc = "ENTERED",
                                !.data_source = data_source,
                                !.in_index = idx[1],
                                !.out_index = idx[2],
                                !.no_incremental = no_incremental,
                                !.seconds = seconds]
    /\ UNCHANGED <<loop_vars, stage_vars, heap, actors>>

\* The body of enrich_onion up to the call of the base study: it raises
\* ELKError when data_source is missing, else warns about a data source it
\* does not know and calls super().enrich_onion with its arguments.
enrich_onion ==
    /\ study.pc = "ENTERED"
    /\ IF MissingDataSource(study.data_source)
       THEN study' = [study EXCEPT !.pc = "RAISED", !.raised = "ELKError"]
       ELSE study' = [study EXCEPT
                        !.pc = "BASE",
                        !.log = IF UnknownDataSource(study.data_source)
                                THEN Append(@, <<"warning", study.data_source>>)
                                ELSE @,
                        !.base = Append(@, BaseCall(study))]
    /\ UNCHANGED <<loop_vars, stage_vars, heap, actors>>

\* The base study, called with the arguments of enrich_onion, reads the
\* index it was given as in_index ...
base_enrich_onion_read ==
    /\ study.pc = "BASE"
    /\ study' = [study EXCEPT
                   !.pc = "READ",
                   !.io = Append(@, <<"read", study.base[1].in_index>>)]
    /\ UNCHANGED <<loop_vars, stage_vars, heap, actors>>

\* ... and writes the index it was given as out_index, or finds nothing to
\* do; then enrich_onion returns.
base_enrich_onion_write ==
    /\ study.pc = "READ"
    /\ \E todo \in BOOLEAN :
         study' = [study EXCEPT
                     !.pc = "RETURNED",
                     !.io = IF todo
                            THEN Append(@, <<"write", study.base[1].out_index>>)
                            ELSE @]
    /\ UNCHANGED <<loop_vars, stage_vars, heap, actors>>

StudyNext ==
    \/ enrich_onion_called
    \/ enrich_onion
    \/ base_enrich_onion_read
    \/ base_enrich_onion_write

StudySpec == StudyInit /\ [][StudyNext]_vars

\* -------------------------------------------------- claims on the study
\* C20: enrich_onion called without a data_source, or with an empty one,
\* raises ELKError and has then not called the base study, read or written
\* an index, or logged anything; called with any other data_source it does
\* not raise, calls the base study once with its own arguments, and has
\* logged one warning exactly when the data_source is not one of
\* gitlink_issues and gitlink_pulls.
C20_FatalBeforeProcessing ==
    study.pc \notin {"IDLE", "ENTERED"} =>
        IF study.data_source \in {None, ""}
        THEN /\ study.pc = "RAISED"
             /\ study.raised = "ELKError"
             /\ study.base = << >>
             /\ study.io = << >>
             /\ study.log = << >>
        ELSE /\ study.pc \in {"BASE", "READ", "RETURNED"}
             /\ study.raised = None
             /\ study.base = << BaseCall(study) >>
             /\ study.log =
                  IF study.data_source \in {"gitlink_issues", "gitlink_pulls"}
                  THEN << >>
                  ELSE << <<"warning", study.data_source>> >>
             /\ \A k \in 1..Len(study.io) :
                  study.io[k][2] \in {study.in_index, study.out_index}

\* C20 witness: enrich_onion was called with the empty string as data_source
\* and has raised.
C20_Witness ==
    /\ study.pc = "RAISED"
    /\ study.data_source = ""
    /\ study.raised = "ELKError"

\* ------------------------------------------------------------------ actors
\* A value found where a record names an actor: the key is missing (kind
\* "absent"), the value is None (kind "none"), or it is a dict with some of
\* the keys login, name, email, company, location and organizations; a key
\* the dict does not have is Absent.
Absent == "absent"

BlankUser(kind) ==
    [kind |-> kind, login |-> Absent, name |-> Absent, email |-> Absent,
     company |-> Absent, location |-> Absent, organizations |-> Absent]

\* USER_NOT_AVAILABLE = {"organizations": []}
USER_NOT_AVAILABLE == [BlankUser("dict") EXCEPT !.organizations = "[]"]

\* {"login": login}, what item["author"] and comment["user"] hold.
Login(login) == [BlankUser("dict") EXCEPT !.login = login]

\* The full user data of an actor, as the *_data fields hold it.
Person(login) ==
    [BlankUser("dict") EXCEPT
        !.login = login, !.name = "Mx " \o login, !.email = login \o "@example.org",
        !.company = "acme", !.location = "here"]

\* What is personal in the user data of the actors of the model.
PersonalValues ==
    UNION {{Person(l).login, Person(l).name, Person(l).email} :
             l \in {"ann", "bob", "cat"}}

\* `key in d` for a dict d (and d[key] can be read).
HasKey(u, f) == u.kind = "dict" /\ u[f] # Absent

\* The truth value of d: None and {} are falsy.
Truthy(u) ==
    /\ u.kind = "dict"
    /\ \E f \in {"login", "name", "email", "company", "location", "organizations"} :
         u[f] # Absent

\* d.get(key, default)
GetOr(u, f, default) == IF u[f] # Absent THEN u[f] ELSE default

\* identity + "_data"
identity_attr(identity) ==
    CASE identity = "author" -> "author_data"
      [] identity = "assignee" -> "assignee_data"
      [] identity = "merged_by" -> "merged_by_data"
      [] identity = "merge_by" -> "merge_by_data"

\* A comment of comments_data: its user, its user_data, and the users of
\* its reactions_data (present tells whether the comment has the key).
ActorComment(user, user_data, present, reactors) ==
    [user |-> user, user_data |-> user_data,
     reactions_data |-> [present |-> present, users |-> reactors]]

\* item["data"] as far as actors go, with item["category"] and the
\* classified_fields_filtered of the envelope at its side.
BlankActors ==
    [category |-> None, classified_fields_filtered |-> FALSE,
     author |-> BlankUser("absent"), author_data |-> BlankUser("absent"),
     assignee |-> BlankUser("absent"), assignee_data |-> BlankUser("absent"),
     merged_by |-> BlankUser("absent"), merged_by_data |-> BlankUser("absent"),
     merge_by |-> BlankUser("absent"), merge_by_data |-> BlankUser("absent"),
     user_data |-> BlankUser("absent"),
     comments_data |-> << >>, review_comments_data |-> << >>]

\* --------------------------------------------------- identity extraction
\* What one step of a generator does: it raises ("raise"), yields a value
\* ("yield") or yields nothing ("skip").
Step(kind, value) == [kind |-> kind, value |-> value]

\* What a consumer of the generator gets: the values yielded before the
\* first step that raises, and whether a step raised.
Consumed(steps) ==
    LET raising == {k \in 1..Len(steps) : steps[k].kind = "raise"}
        first == IF raising = {} THEN Len(steps) + 1
                 ELSE CHOOSE k \in raising : \A j \in raising : k <= j
        yields == SelectSeq(SubSeq(steps, 1, first - 1),
                            LAMBDA s : s.kind = "yield")
    IN  [raised |-> raising # {},
         identities |-> [k \in 1..Len(yields) |-> yields[k].value]]

\* The empty identity get_sh_identity returns for a user that is None or {}.
NoIdentity == [username |-> Absent, name |-> Absent, email |-> Absent]

\* GitlinkEnrich2.get_sh_identity(user): name and username fall back to
\* the login, and to None; the caller yields what is not the empty
\* identity.
get_sh_identity(user) ==
    IF ~Truthy(user) THEN Step("skip", NoIdentity)
    ELSE Step("yield",
              [name |-> GetOr(user, "name", GetOr(user, "login", None)),
               email |-> GetOr(user, "email", None),
               username |-> GetOr(user, "login", None)])

\* The fields of the payload GitlinkEnrich2.get_identities looks at.
identity_types(category) ==
    IF category = ISSUE_TYPE THEN <<"author", "assignee">>
    ELSE IF category = PULL_TYPE THEN <<"merged_by">>
    ELSE << >>

\* comments_attr, and item.get(comments_attr, []): the comments of an
\* issue; a pull request has none under the key None.
comments_of(d) == IF d.category = ISSUE_TYPE THEN d.comments_data ELSE << >>

\* GitlinkEnrich2.get_identities: item[identity] is subscripted, the
\* identity is taken from item[identity_attr] when the key is there; then
\* comment["user_data"] is subscripted for every comment.
get_identities(d) ==
    LET types == identity_types(d.category)
        actor(identity) ==
            IF d[identity].kind = "absent" THEN Step("raise", NoIdentity)
            ELSE IF Truthy(d[identity]) /\ d[identity_attr(identity)].kind # "absent"
            THEN get_sh_identity(d[identity_attr(identity)])
            ELSE Step("skip", NoIdentity)
        commenter(comment) ==
            IF comment.user_data.kind = "absent" THEN Step("raise", NoIdentity)
            ELSE get_sh_identity(comment.user_data)
    IN  Consumed([k \in 1..Len(types) |-> actor(types[k])]
                 \o [k \in 1..Len(comments_of(d)) |-> commenter(comments_of(d)[k])])

\* GitlinkEnrich.get_sh_identity(user): `"data" in user` is evaluated first
\* and raises TypeError for None; user["login"] is subscripted.
GitlinkEnrich_get_sh_identity(user) ==
    IF user.kind = "none" THEN Step("raise", NoIdentity)
    ELSE IF ~Truthy(user) THEN Step("skip", NoIdentity)
    ELSE IF ~HasKey(user, "login") THEN Step("raise", NoIdentity)
    ELSE Step("yield", [username |-> user.login,
                        email |-> GetOr(user, "email", None),
                        name |-> GetOr(user, "name", None)])

\* The fields of the payload GitlinkEnrich.get_identities looks at.
GitlinkEnrich_identity_types(category) ==
    IF category = ISSUE_TYPE THEN <<"author", "assignee">>
    ELSE IF category = PULL_TYPE THEN <<"merge_by">>
    ELSE << >>

\* GitlinkEnrich.get_identities: the actors of the payload only, no
\* comments.
GitlinkEnrich_get_identities(d) ==
    LET types == GitlinkEnrich_identity_types(d.category)
        actor(identity) ==
            IF d[identity].kind = "absent" THEN Step("raise", NoIdentity)
            ELSE IF Truthy(d[identity]) /\ d[identity_attr(identity)].kind # "absent"
            THEN GitlinkEnrich_get_sh_identity(d[identity_attr(identity)])
            ELSE Step("skip", NoIdentity)
    IN  Consumed([k \in 1..Len(types) |-> actor(types[k])])

\* ----------------------------------------------------------- anonymization
\* cls._hash: a one-way hash of a string; None stays None.
Hash(x) == IF x = None THEN None ELSE "sha1(" \o x \o ")"

\* The user data anonymize_item writes for a login.
Hashed(login) ==
    [BlankUser("dict") EXCEPT
        !.name = Hash(login), !.login = Hash(login), !.email = None,
        !.company = None, !.location = None]

\* The fields of the payload anonymize_item looks at.
anonymize_identity_types(category) ==
    IF category = ISSUE_TYPE THEN <<"author", "assignee">>
    ELSE IF category = PULL_TYPE THEN <<"merged_by">>
    ELSE << >>

RECURSIVE anonymize_identities(_, _)
\* The loop over identity_types, statement by statement: a missing or falsy
\* field is passed over; item[identity] is replaced by the hash of its
\* login, then item[identity + "_data"] by the hash of its own login. st is
\* the payload so far and whether a subscript has raised.
anonymize_identities(st, types) ==
    IF types = << >> \/ st.raised THEN st
    ELSE LET identity == Head(types)
             v == st.data[identity]
             a == st.data[identity_attr(identity)]
             hashed == [st.data EXCEPT ![identity] = Login(Hash(v.login))]
         IN  anonymize_identities(
                 IF ~Truthy(v) THEN st
                 ELSE IF ~HasKey(v, "login") THEN [st EXCEPT !.raised = TRUE]
                 ELSE IF ~HasKey(a, "login")
                 THEN [raised |-> TRUE, data |-> hashed]
                 ELSE [raised |-> FALSE,
                       data |-> [hashed EXCEPT
                                   ![identity_attr(identity)] = Hashed(a.login)]],
                 Tail(types))

\* The body of the loop over the comments: comment["user"] when it is there
\* and truthy, comment["user_data"], then the user of each entry of
\* comment["reactions_data"]; the comment as a raising subscript leaves it.
anonymize_comment(c) ==
    LET c1 == IF Truthy(c.user) /\ HasKey(c.user, "login")
              THEN [c EXCEPT !.user = Login(Hash(c.user.login))] ELSE c
        c2 == [c1 EXCEPT !.user_data = Hashed(c.user_data.login)]
        users == c.reactions_data.users
        bad == {k \in 1..Len(users) : ~HasKey(users[k], "login")}
        stop == IF bad = {} THEN Len(users) + 1
                ELSE CHOOSE k \in bad : \A j \in bad : k <= j
        c3 == [c2 EXCEPT !.reactions_data.users =
                  [k \in 1..Len(users) |->
                     IF k < stop THEN Login(Hash(users[k].login)) ELSE users[k]]]
    IN  IF Truthy(c.user) /\ ~HasKey(c.user, "login")
        THEN [raised |-> TRUE, comment |-> c]
        ELSE IF ~HasKey(c.user_data, "login")
        THEN [raised |-> TRUE, comment |-> c1]
        ELSE IF ~c.reactions_data.present
        THEN [raised |-> TRUE, comment |-> c2]
        ELSE [raised |-> bad # {}, comment |-> c3]

\* GitlinkIdentities.anonymize_item: the payload as the call leaves it, and
\* whether it raised.  The comments are those of an issue (comments_attr is
\* None for a pull request); the loop stops at the first comment that
\* raises.
anonymize_item(d) ==
    LET st == anonymize_identities([raised |-> FALSE, data |-> d],
                                   anonymize_identity_types(d.category))
        comments == comments_of(st.data)
        done == [k \in 1..Len(comments) |-> anonymize_comment(comments[k])]
        bad == {k \in 1..Len(done) : done[k].raised}
        stop == IF bad = {} THEN Len(done) + 1
                ELSE CHOOSE k \in bad : \A j \in bad : k <= j
    IN  IF st.raised THEN st
        ELSE [raised |-> bad # {},
              data |-> [st.data EXCEPT !.comments_data =
                          [k \in 1..Len(@) |->
                             IF k \in 1..Len(comments) /\ k <= stop
                             THEN done[k].comment ELSE @[k]]]]

\* ------------------------------------------------------------ the raw fixer
\* The fields of the payload GitlinkOcean._fix_item looks at.
fix_item_identity_types(category) ==
    IF category = ISSUE_TYPE THEN <<"author", "assignee">>
    ELSE IF category = PULL_TYPE THEN <<"merge_by">>
    ELSE << >>

RECURSIVE fix_identities(_, _)
\* The loop over identity_types of _fix_item: item[identity + "_data"] is
\* rebuilt from the login of item[identity].
fix_identities(st, types) ==
    IF types = << >> \/ st.raised THEN st
    ELSE LET identity == Head(types)
             v == st.data[identity]
         IN  fix_identities(
                 IF ~Truthy(v) THEN st
                 ELSE IF ~HasKey(v, "login") THEN [st EXCEPT !.raised = TRUE]
                 ELSE [st EXCEPT !.data[identity_attr(identity)] =
                          [BlankUser("dict") EXCEPT
                              !.name = v.login, !.login = v.login,
                              !.email = None, !.company = None,
                              !.location = None]],
                 Tail(types))

\* GitlinkOcean._fix_item: nothing is done unless the record has a truthy
\* classified_fields_filtered; then the *_data fields of the actors and the
\* user_data of every comment are rebuilt from the logins, subscripting
\* comment["user"]["login"].
fix_item(d) ==
    LET st == fix_identities([raised |-> FALSE, data |-> d],
                             fix_item_identity_types(d.category))
        comments == comments_of(st.data)
        bad == {k \in 1..Len(comments) : ~HasKey(comments[k].user, "login")}
        stop == IF bad = {} THEN Len(comments) + 1
                ELSE CHOOSE k \in bad : \A j \in bad : k <= j
    IN  IF ~d.classified_fields_filtered THEN [raised |-> FALSE, data |-> d]
        ELSE IF st.raised THEN st
        ELSE [raised |-> bad # {},
              data |-> [st.data EXCEPT !.comments_data =
                          [k \in 1..Len(@) |->
                             IF k \in 1..Len(comments) /\ k < stop
                             THEN [comments[k] EXCEPT !.user_data =
                                     [BlankUser("dict") EXCEPT
                                         !.name = comments[k].user.login,
                                         !.login = comments[k].user.login,
                                         !.email = None, !.company = None,
                                         !.location = None]]
                             ELSE @[k]]]]

\* --------------------------------------------------------- actor flattening
\* The keys an actor is flattened to, under a prefix, as pairs of key and
\* value; domain is get_email_domain(email) when the email is truthy (every
\* address of the model is at example.org).
ActorFields(prefix, names, user) ==
    {<<prefix \o n,
       CASE n = "domain" -> IF HasKey(user, "email") /\ user.email # None
                            THEN "example.org" ELSE None
         [] n = "org" -> GetOr(user, "company", None)
         [] n = "geolocation" -> None
         [] OTHER -> GetOr(user, n, None)>> : n \in names}

\* One of the four if / else blocks that flatten an actor (gitlink2.py
\* 697-711 author and 713-729 assignee of an issue, 574-590 user and 592-610
\* merger of a pull request).  The if branch subscripts needs and sets the
\* keys set; the else branch sets all six keys to None.  Only the assignee
\* and the merger are compared with USER_NOT_AVAILABLE.
flatten(block, user) ==
    LET sentinel == block \in {"assignee", "merge_author"}
        needs == IF block = "merge_author" THEN {"login", "name", "email"}
                 ELSE IF block = "assignee"
                 THEN {"login", "name", "email", "company"}
                 ELSE {"name", "email", "company"}
        set == CASE block = "issue_user" ->
                      {"name", "domain", "org", "location", "geolocation"}
                 [] block = "pull_user" -> {"name", "domain", "org", "geolocation"}
                 [] block = "assignee" ->
                      {"login", "name", "domain", "org", "location", "geolocation"}
                 [] block = "merge_author" ->
                      {"login", "name", "domain", "org", "geolocation"}
        prefix == IF block \in {"issue_user", "pull_user"} THEN "user_"
                  ELSE block \o "_"
        author_name(u) ==
            IF block \in {"issue_user", "pull_user"}
            THEN {<<"author_name", GetOr(u, "name", None)>>} ELSE {}
        all == IF sentinel
               THEN {"login", "name", "domain", "org", "location", "geolocation"}
               ELSE {"name", "domain", "org", "location", "geolocation"}
    IN  IF Truthy(user) /\ ~(sentinel /\ user = USER_NOT_AVAILABLE)
        THEN IF \E f \in needs : ~HasKey(user, f)
             THEN [raised |-> TRUE, fields |-> {}]
             ELSE [raised |-> FALSE,
                   fields |-> ActorFields(prefix, set, user) \cup author_name(user)]
        ELSE [raised |-> FALSE,
              fields |-> ActorFields(prefix, all, BlankUser("none"))
                         \cup author_name(BlankUser("none"))]

\* The part of __get_rich_issue and of __get_rich_pull that flattens the
\* actors of the payload: issue["author"]["login"] is subscripted first;
\* the merger is read from "merge_by".
rich_actors(d) ==
    LET first == IF d.category = ISSUE_TYPE
                 THEN flatten("issue_user", d.author_data)
                 ELSE flatten("pull_user", d.user_data)
        second == IF d.category = ISSUE_TYPE
                  THEN flatten("assignee", d.assignee_data)
                  ELSE flatten("merge_author", d.merge_by)
    IN  IF d.category = ISSUE_TYPE /\ ~HasKey(d.author, "login")
        THEN [raised |-> TRUE, fields |-> {}]
        ELSE [raised |-> first.raised \/ second.raised,
              fields |-> IF first.raised \/ second.raised THEN {}
                         ELSE first.fields \cup second.fields]

\* ------------------------------------- the functions that look at actors
\* The comments of the model: one by ann with a reaction of cat, one by bob,
\* one of a deleted user, one without user_data and reactions_data.
ActorComments ==
    {ActorComment(Login("ann"), Person("ann"), TRUE, <<Person("cat")>>),
     ActorComment(Login("bob"), Person("bob"), TRUE, << >>),
     ActorComment(BlankUser("none"), BlankUser("none"), TRUE, << >>),
     ActorComment(Login("cat"), BlankUser("absent"), FALSE, << >>)}

\* The records: issues whose author and assignee are there or not, with up
\* to MaxActorComments comments of one commenter, and pull requests with an
\* author and a merger, under merged_by or under merge_by.
ActorInputs ==
    {[BlankActors EXCEPT
        !.category = ISSUE_TYPE, !.classified_fields_filtered = cff,
        !.author = au[1], !.author_data = au[2],
        !.assignee = as[1], !.assignee_data = as[2],
        !.comments_data = [k \in 1..n |-> c]] :
        cff \in BOOLEAN,
        au \in {<<Login("ann"), Person("ann")>>,
                <<Login("ann"), BlankUser("absent")>>,
                <<Login("ann"), USER_NOT_AVAILABLE>>,
                <<BlankUser("none"), BlankUser("none")>>},
        as \in {<<Login("bob"), Person("bob")>>,
                <<Login("ann"), Person("ann")>>,
                <<USER_NOT_AVAILABLE, USER_NOT_AVAILABLE>>,
                <<BlankUser("absent"), BlankUser("absent")>>},
        n \in 0..MaxActorComments, c \in ActorComments}
    \cup
    {[BlankActors EXCEPT
        !.category = PULL_TYPE, !.classified_fields_filtered = cff,
        !.user_data = u,
        !.merged_by = m[1], !.merged_by_data = m[2], !.merge_by = m[3],
        !.review_comments_data = r] :
        cff \in BOOLEAN,
        u \in {Person("ann"), USER_NOT_AVAILABLE, BlankUser("absent")},
        m \in {<<Login("bob"), Person("bob"), BlankUser("absent")>>,
               <<BlankUser("absent"), BlankUser("absent"), Person("bob")>>,
               <<BlankUser("absent"), BlankUser("absent"), USER_NOT_AVAILABLE>>,
               <<BlankUser("absent"), BlankUser("absent"), BlankUser("absent")>>},
        r \in {<< >>,
               <<ActorComment(Login("cat"), Person("cat"), TRUE, << >>)>>}}

\* A call made on the record: the function, the payload before and after,
\* whether it raised, and what it returned (the identities of
\* get_identities, the keys and values of the flattening).
ActorCall(op, before, raised, after, identities, fields) ==
    [op |-> op, before |-> before, raised |-> raised, after |-> after,
     identities |-> identities, fields |-> fields]

ActorInit ==
    /\ pc = "DRAINING"
    /\ item = NoItem
    /\ items_to_enrich = << >>
    /\ num_items = 0
    /\ ins_items = 0
    /\ log = << >>
    /\ source = [fill |-> 0, tail |-> 0, exhausted |-> FALSE]
    /\ sunk = << >>
    /\ produced = << >>
    /\ enricher = GitlinkEnrich2
    /\ sortinghat = FALSE
    /\ now = NowStart
    /\ raw = NoItem
    /\ original = NoItem
    /\ tpc = "IDLE"
    /\ returned = NoReturn
    /\ runs = << >>
    /\ study = NoStudy
    /\ heap = NoHeap
    /\ \E d \in ActorInputs : actors = [pc |-> "READY", data |-> d, calls |-> << >>]

\* GitlinkEnrich2.get_identities(item), consumed to its end.
call_get_identities ==
    /\ actors.pc = "READY" /\ Len(actors.calls) < MaxCalls
    /\ LET out == get_identities(actors.data)
       IN  actors' = [actors EXCEPT !.calls =
              Append(@, ActorCall("get_identities", actors.data, out.raised,
                                  actors.data, out.identities, {}))]
    /\ UNCHANGED <<loop_vars, stage_vars, study, heap>>

\* GitlinkEnrich.get_identities(item), consumed to its end.
call_GitlinkEnrich_get_identities ==
    /\ actors.pc = "READY" /\ Len(actors.calls) < MaxCalls
    /\ LET out == GitlinkEnrich_get_identities(actors.data)
       IN  actors' = [actors EXCEPT !.calls =
              Append(@, ActorCall("GitlinkEnrich.get_identities", actors.data,
                                  out.raised, actors.data, out.identities, {}))]
    /\ UNCHANGED <<loop_vars, stage_vars, study, heap>>

\* GitlinkIdentities.anonymize_item(item): the record is changed in place.
call_anonymize_item ==
    /\ actors.pc = "READY" /\ Len(actors.calls) < MaxCalls
    /\ LET out == anonymize_item(actors.data)
       IN  actors' = [actors EXCEPT
              !.data = out.data,
              !.calls = Append(@, ActorCall("anonymize_item", actors.data,
                                            out.raised, out.data, << >>, {}))]
    /\ UNCHANGED <<loop_vars, stage_vars, study, heap>>

\* GitlinkOcean._fix_item(item): the record is changed in place.
call_fix_item ==
    /\ actors.pc = "READY" /\ Len(actors.calls) < MaxCalls
    /\ LET out == fix_item(actors.data)
       IN  actors' = [actors EXCEPT
              !.data = out.data,
              !.calls = Append(@, ActorCall("_fix_item", actors.data,
                                            out.raised, out.data, << >>, {}))]
    /\ UNCHANGED <<loop_vars, stage_vars, study, heap>>

\* The flattening of the actors in GitlinkEnrich2.get_rich_item(item).
call_rich_actors ==
    /\ actors.pc = "READY" /\ Len(actors.calls) < MaxCalls
    /\ LET out == rich_actors(actors.data)
       IN  actors' = [actors EXCEPT !.calls =
              Append(@, ActorCall("get_rich_item", actors.data, out.raised,
                                  actors.data, << >>, out.fields))]
    /\ UNCHANGED <<loop_vars, stage_vars, study, heap>>

ActorNext ==
    \/ call_get_identities
    \/ call_GitlinkEnrich_get_identities
    \/ call_anonymize_item
    \/ call_fix_item
    \/ call_rich_actors

ActorSpec == ActorInit /\ [][ActorNext]_vars

\* ------------------------------------------------------- claims on actors
\* The calls of the functions named in ops, among the calls made so far.
CallsOf(ops) == {k \in 1..Len(actors.calls) : actors.calls[k].op \in ops}

\* Every value of the payload that holds an actor.
ActorValues(d) ==
    {d.author, d.author_data, d.assignee, d.assignee_data, d.merged_by,
     d.merged_by_data, d.merge_by, d.merge_by_data, d.user_data}
    \cup UNION {{c.user, c.user_data}
                \cup {c.reactions_data.users[j] :
                        j \in 1..Len(c.reactions_data.users)} :
                c \in {d.comments_data[k] : k \in 1..Len(d.comments_data)}
                      \cup {d.review_comments_data[k] :
                              k \in 1..Len(d.review_comments_data)}}

\* The logins of the actors the payload names as author, assignee, merger
\* or commenter.
ActorsReferenced(d) ==
    {u.login : u \in {v \in {d.author, d.assignee, d.merged_by, d.merge_by}
                             \cup {d.comments_data[k].user :
                                     k \in 1..Len(d.comments_data)} :
                        HasKey(v, "login")}}

\* C21 (as claimed): get_identities of either enricher does not raise and
\* yields one identity for each actor the record names, no actor twice and
\* none with a null username.
C21_OneIdentityPerActor ==
    \A k \in CallsOf({"get_identities", "GitlinkEnrich.get_identities"}) :
        LET call == actors.calls[k]
            ids == call.identities
        IN  /\ ~call.raised
            /\ \A i, j \in 1..Len(ids) : i # j => ids[i].username # ids[j].username
            /\ \A i \in 1..Len(ids) : ids[i].username \notin {None, Absent}
            /\ {ids[i].username : i \in 1..Len(ids)} = ActorsReferenced(call.before)

\* C22 (as claimed): anonymize_item on an issue or a pull request does not
\* raise and leaves no login, name or email of an actor in the record, and
\* no company or location.
C22_NothingPersonalLeft ==
    \A k \in CallsOf({"anonymize_item"}) :
        LET call == actors.calls[k]
        IN  /\ ~call.raised
            /\ \A u \in ActorValues(call.after) :
                 /\ {u.login, u.name, u.email} \cap PersonalValues = {}
                 /\ u.company \in {None, Absent}
                 /\ u.location \in {None, Absent}

\* The fields of a record of a category a function visits to find actors:
\* the fields of the payload, and the comments when it goes through them.
FieldsVisited(op, category) ==
    LET types == CASE op = "anonymize_item" -> anonymize_identity_types(category)
                   [] op = "get_identities" -> identity_types(category)
                   [] op = "GitlinkEnrich.get_identities" ->
                          GitlinkEnrich_identity_types(category)
                   [] op = "_fix_item" -> fix_item_identity_types(category)
    IN  {types[k] : k \in 1..Len(types)}
        \cup (IF op # "GitlinkEnrich.get_identities" /\ category = ISSUE_TYPE
              THEN {"comments_data"} ELSE {})

\* C23 (as claimed): whichever of get_identities (of either enricher) and
\* _fix_item is called on a record, it visits the fields anonymize_item
\* visits for the category of the record.
C23_SameActorDiscovery ==
    \A k \in CallsOf({"get_identities", "GitlinkEnrich.get_identities", "_fix_item"}) :
        FieldsVisited(actors.calls[k].op, actors.calls[k].before.category)
            = FieldsVisited("anonymize_item", actors.calls[k].before.category)

\* The actor of the record is missing, None or the sentinel.
NoActor(u) == ~Truthy(u) \/ u = USER_NOT_AVAILABLE

\* C25 (as claimed): the flattening of the actors of a record does not
\* raise, sets the same keys whether an actor is there or not (six for the
\* author, six for the assignee of an issue and for the merger of a pull
\* request), and sets the keys of an actor that is missing or the sentinel
\* to None.
C25_ActorKeysDefaulted ==
    \A k \in CallsOf({"get_rich_item"}) :
        LET call == actors.calls[k]
            d == call.before
            second == IF d.category = ISSUE_TYPE THEN "assignee_" ELSE "merge_author_"
            first_keys == {"user_name", "author_name", "user_domain", "user_org",
                           "user_location", "user_geolocation"}
            second_keys == {second \o n : n \in {"login", "name", "domain", "org",
                                                 "location", "geolocation"}}
            none(keys) == \A f \in call.fields : f[1] \in keys => f[2] = None
            claimed == IF d.category = ISSUE_TYPE THEN first_keys \cup second_keys
                       ELSE second_keys
        IN  (d.category = PULL_TYPE \/ HasKey(d.author, "login")) =>
              /\ ~call.raised
              /\ {f[1] : f \in call.fields} \cap claimed = claimed
              /\ (d.category = ISSUE_TYPE /\ NoActor(d.author_data)) => none(first_keys)
              /\ NoActor(IF d.category = ISSUE_TYPE THEN d.assignee_data
                         ELSE d.merge_by) => none(second_keys)

\* ------------------------------------------- the loop, call by call
\* enrich_items with the call of elastic.bulk_upload split in two: the
\* hand-over of the list and the end of the call, by a return or by an
\* exception.  heap.lists holds the contents of every list object the
\* function made; heap.items_to_enrich is the object the local name is bound
\* to; heap.in_call is the object bulk_upload is working on, 0 outside a
\* call.

\* A call of bulk_upload: the list object it was handed, what the list held
\* and how many records the source had yielded at that moment, and how the
\* call ended ("pending" while it runs).
SinkCall(ref, handed, fetched, outcome) ==
    [ref |-> ref, handed |-> handed, fetched |-> fetched, outcome |-> outcome]

\* One iteration of the for loop up to the threshold test, as
\* enrich_items_iteration: the appends go to the list object the name
\* items_to_enrich is bound to.
call_iteration ==
    /\ pc = "DRAINING"
    /\ \E next \in SourceNext(source) :
         LET it == RawItem(next[1], Fetched(source) + 1)
             eitem == get_rich_item(it)
             parent == <<Stored(eitem, it.id, 0)>>
             mapped == get_rich_item_raw(it)
             fan == enrich_fan_out(mapped, eitem)
             eitems == StoredAll(fan.eitems, it.id)
             appended == IF eitem.raised THEN << >>
                         ELSE IF fan.raised THEN parent
                         ELSE parent \o eitems
         IN  /\ source' = next[2]
             /\ item' = IF eitem.raised THEN mapped
                        ELSE enrich_fan_out_raw(mapped, eitem)
             /\ log' = log \o get_rich_item_log(it)
             /\ heap' = [heap EXCEPT !.lists[heap.items_to_enrich] = @ \o appended]
             /\ items_to_enrich' = heap'.lists[heap.items_to_enrich]
             /\ produced' = produced \o appended
             /\ pc' = IF eitem.raised \/ fan.raised THEN "RAISED"
                      ELSE IF BelowThreshold(Len(items_to_enrich'))
                      THEN "DRAINING" ELSE "FLUSHING"
    /\ UNCHANGED <<num_items, ins_items, sunk>>
    /\ UNCHANGED <<stage_vars, study, actors>>

\* A call that hands the list over and does not wait for the sink.
bulk_upload_call_async ==
    /\ pc = "FLUSHING"
    /\ num_items' = num_items + Len(items_to_enrich)
    /\ heap' = [heap EXCEPT
                  !.in_call = heap.items_to_enrich,
                  !.calls = Append(@, SinkCall(heap.items_to_enrich, items_to_enrich,
                                               Fetched(source), "pending"))]
    /\ pc' = "DRAINING"
    /\ UNCHANGED <<item, items_to_enrich, ins_items, log, source, sunk, produced>>
    /\ UNCHANGED <<stage_vars, study, actors>>

\* Lines 513-516 and 519-521 up to the call: num_items is increased by the
\* length of the buffer and the list object is handed to bulk_upload, inside
\* the loop when the threshold is reached, after it when a remainder is left.
bulk_upload_call ==
    /\ \/ pc = "FLUSHING"
       \/ pc = "FINAL" /\ HasRemainder(Len(items_to_enrich))
    /\ num_items' = num_items + Len(items_to_enrich)
    /\ heap' = [heap EXCEPT
                  !.in_call = heap.items_to_enrich,
                  !.calls = Append(@, SinkCall(heap.items_to_enrich, items_to_enrich,
                                               Fetched(source), "pending"))]
    /\ pc' = "UPLOADING"
    /\ UNCHANGED <<item, items_to_enrich, ins_items, log, source, sunk, produced>>
    /\ UNCHANGED <<stage_vars, study, actors>>

\* The code after the loop when the buffer is empty: no call.
enrich_items_final_skip ==
    /\ pc = "FINAL"
    /\ ~HasRemainder(Len(items_to_enrich))
    /\ pc' = "REPORT"
    /\ UNCHANGED <<item, items_to_enrich, num_items, ins_items, log, source, sunk,
                   produced, heap>>
    /\ UNCHANGED <<stage_vars, study, actors>>

\* bulk_upload returns: its count is added to ins_items; inside the loop the
\* name items_to_enrich is bound to a new empty list (line 517), after the
\* loop it is left as it is.
bulk_upload_return ==
    /\ pc = "UPLOADING"
    /\ \E ret \in SinkResults(Len(items_to_enrich)) :
         /\ ins_items' = ins_items + ret
         /\ sunk' = Append(sunk, [items |-> items_to_enrich,
                                  field_id |-> get_field_unique_id,
                                  ret |-> ret, final |-> source.exhausted])
    /\ heap' = IF source.exhausted
               THEN [heap EXCEPT !.in_call = 0,
                                 !.calls[Len(heap.calls)].outcome = "returned"]
               ELSE [heap EXCEPT !.in_call = 0,
                                 !.calls[Len(heap.calls)].outcome = "returned",
                                 !.lists = Append(@, << >>),
                                 !.items_to_enrich = Len(heap.lists) + 1]
    /\ items_to_enrich' = heap'.lists[heap'.items_to_enrich]
    /\ pc' = IF source.exhausted THEN "REPORT" ELSE "DRAINING"
    /\ UNCHANGED <<item, num_items, log, source, produced>>
    /\ UNCHANGED <<stage_vars, study, actors>>

\* An exception of the sink that is caught: the loop goes on as after a
\* return of 0.
bulk_upload_raise_caught ==
    /\ pc = "UPLOADING"
    /\ heap' = IF source.exhausted
               THEN [heap EXCEPT !.in_call = 0,
                                 !.calls[Len(heap.calls)].outcome = "raised"]
               ELSE [heap EXCEPT !.in_call = 0,
                                 !.calls[Len(heap.calls)].outcome = "raised",
                                 !.lists = Append(@, << >>),
                                 !.items_to_enrich = Len(heap.lists) + 1]
    /\ items_to_enrich' = heap'.lists[heap'.items_to_enrich]
    /\ pc' = IF source.exhausted THEN "REPORT" ELSE "DRAINING"
    /\ UNCHANGED <<item, num_items, ins_items, log, source, sunk, produced>>
    /\ UNCHANGED <<stage_vars, study, actors>>

\* bulk_upload raises: enrich_items has no try statement, the exception
\* leaves it.
bulk_upload_raise ==
    /\ pc = "UPLOADING"
    /\ heap' = [heap EXCEPT !.in_call = 0,
                            !.calls[Len(heap.calls)].outcome = "raised"]
    /\ pc' = "RAISED"
    /\ UNCHANGED <<item, items_to_enrich, num_items, ins_items, log, source, sunk,
                   produced>>
    /\ UNCHANGED <<stage_vars, study, actors>>

CallNext ==
    \/ call_iteration
    \/ bulk_upload_call
    \/ bulk_upload_return
    \/ bulk_upload_raise
    \/ enrich_items_exhausted
    \/ enrich_items_final_skip
    \/ enrich_items_report

CallSpec == Init /\ [][CallNext]_vars

\* ------------------------------------------------- claims on the calls
\* The calls of bulk_upload that ended the way given.
CallsEnded(outcome) ==
    {k \in 1..Len(heap.calls) : heap.calls[k].outcome = outcome}

\* C24: while a call of bulk_upload is in progress the source has yielded
\* what it had yielded at the hand-over and the list handed over holds what
\* it held; a list handed to the sink is never changed afterwards, and the
\* loop goes on draining with a list that was never handed over.
C24_FlushBetweenDrains ==
    /\ \A k \in 1..Len(heap.calls) :
          heap.lists[heap.calls[k].ref] = heap.calls[k].handed
    /\ heap.in_call # 0 =>
          LET call == heap.calls[Len(heap.calls)]
          IN  /\ call.ref = heap.in_call
              /\ call.outcome = "pending"
              /\ Fetched(source) = call.fetched
              /\ produced = Flatten(sunk) \o call.handed
    /\ heap.in_call = 0 => CallsEnded("pending") = {}
    /\ pc = "DRAINING" =>
          \A k \in 1..Len(heap.calls) : heap.calls[k].ref # heap.items_to_enrich

\* A batch was handed over and the call returned; the loop has gone on and
\* has appended to the new list.
C24_Witness ==
    /\ pc = "DRAINING"
    /\ CallsEnded("returned") = {1}
    /\ heap.items_to_enrich = 2
    /\ Len(heap.lists[2]) > 0
    /\ Len(heap.lists[1]) >= MAX_SIZE_BULK_ENRICHED_ITEMS

\* C29: an exception of the transform or of the sink ends enrich_items: no
\* step follows it, so no further sink call and no report; nothing was
\* reported before it; the batches whose call returned stay submitted, and
\* the records in the buffer (at most 199 of earlier source records, and the
\* parent of the record that failed) are in no batch the sink accepted, and
\* after a failure of the transform in no list handed to the sink.
C29_RaisePropagates ==
    /\ [][pc # "RAISED"]_vars
    /\ [](CallsEnded("raised") # {} =>
            pc = "RAISED" /\ CallsEnded("raised") = {Len(heap.calls)})
    /\ [](pc = "RAISED" =>
            /\ Reports = {}
            /\ heap.in_call = 0
            /\ Len(sunk) = Cardinality(CallsEnded("returned"))
            /\ \A k \in 1..Len(sunk) : sunk[k].items = heap.calls[k].handed
            /\ ins_items = SumRet(sunk)
            /\ produced = Flatten(sunk) \o items_to_enrich
            /\ CallsEnded("raised") = {} =>
                 /\ Len(items_to_enrich) <= MAX_SIZE_BULK_ENRICHED_ITEMS
                 /\ \A k \in 1..Len(heap.calls) :
                       heap.calls[k].ref # heap.items_to_enrich)

\* The transform has raised after a batch was flushed, with records in the
\* buffer.
C29_Witness ==
    /\ pc = "RAISED"
    /\ CallsEnded("returned") = {1}
    /\ CallsEnded("raised") = {}
    /\ Len(items_to_enrich) > 0

\* ------------------------------------------ claims on the batches of a run
\* C26 (as claimed): when the run has ended and the last record of the
\* source is a well-formed record, the batches handed to the sink hold, in
\* source order, one record for each source record and after it one for
\* each of its comments, review comments and reviews.
C26_OrderAndGrouping ==
    (pc \in {"DONE", "RAISED"} /\ WellFormed(item) /\ source.tail = 1) =>
        /\ Len(Flatten(sunk)) = source.fill + 1 + FanOutSize(item)
        /\ InSourceOrder(Flatten(sunk))
        /\ Flatten(sunk) = produced

\* The records of a batch that come from the source record its last record
\* comes from.
OfLastRecord(items) ==
    Cardinality({j \in 1..Len(items) : items[j].src = items[Len(items)].src})

\* The source records a sequence of enriched records comes from.
SourcesOf(items) == {items[j].src : j \in 1..Len(items)}

C28_ReturnsSubmitted ==
    /\ num_items = SumLen(sunk)
    /\ pc \in {"REPORT", "DONE"} =>
          /\ num_items = Len(produced)
          /\ num_items = Len(Flatten(sunk))

\* A run has returned after a flush inside the loop and one after it, and
\* the sink reported fewer records than it was handed.
C28_Witness ==
    /\ pc = "DONE"
    /\ Len(sunk) = 2
    /\ ins_items < num_items
    /\ num_items = Fetched(source)
====
